---- MODULE Spec2Model ----
(***************************************************************************)
(* The IoT daily-aggregation pipelines of the repository:                  *)
(*   - the incremental ELT DAG  (AirflowFix/airflow/dags/elt_iot_pipeline)  *)
(*   - the full-refresh ELT DAG (airflow/dags/elt_iot_pipeline)             *)
(*   - the pandas ETL DAG       (airflow/dags/etl_iot_pipeline)             *)
(*                                                                         *)
(* Encoding.  A temperature is an integer number of hundredths of a degree *)
(* (DECIMAL(5,2)): 2501 is 25.01.  A timestamp is an integer number of      *)
(* hours since the epoch, so DATE(ts) is ts \div 24.  A nullable SQL value  *)
(* is a set with at most one element: {} is NULL, {v} is the value v.       *)
(* An unrounded average is the exact rational <<sum, count>>.  A table is   *)
(* a bag of rows (reading_id and created_at, which no query reads, are     *)
(* left out: the copies of a row in the bag stand for them).               *)
(***************************************************************************)
EXTENDS Integers, Sequences, FiniteSets, Bags, TLC

VARIABLES
    raw_sensors,    \* staging table raw_sensors    (bag of [sensor_id, location])
    raw_readings,   \* staging table raw_readings   (bag of [sensor_id, temperature, timestamp])
    raw_weather,    \* staging table raw_weather    (bag of [date, location, condition, avg_temp])
    temp_dtype,     \* dtype pandas infers for readings.csv's temperature column
    win,            \* the rendered template parameters data_interval_start / _end
    out,            \* what the last applied transform produced
    files,          \* sensors.csv, readings.csv, weather.csv of DATA_DIR
    summary,        \* table daily_sensor_summary_elt (bag of rows)
    catalog,        \* which relations exist: the table, its partitions, its index
    run,            \* the DAG run: its number, its logical date ds, its state
    state,          \* task_id -> state of the task instance in the run
    tries,          \* task_id -> attempts made in the run
    result,         \* task_id -> how the last attempt ended
    emitted,        \* the rows transform_in_sql inserted in the run
    branch,         \* the task_id check_for_anomalies returned in the run
    env_budget,     \* attempts the environment may still make fail
    refresh,        \* the full-refresh DAGs (ELT and pandas ETL): run, tables, history
    pipeline,       \* a SensorETLPipeline object and the position of its run_pipeline
    call,           \* a call of a function of ETL-Pandas: its arguments and its outcome
    pair            \* two runs of the incremental DAG sharing the staging tables

dagVars == <<files, summary, catalog, run, state, tries, result, emitted, branch,
             env_budget>>

aggVars == <<raw_sensors, raw_readings, raw_weather, temp_dtype, win, out>>

libVars == <<refresh, pipeline, call, pair>>

vars == <<raw_sensors, raw_readings, raw_weather, temp_dtype, win, out, files, summary,
          catalog, run, state, tries, result, emitted, branch, env_budget, refresh,
          pipeline, call, pair>>

----------------------------------------------------------------------------
(* Bounds of the input families.                                           *)

MaxReadings == 2
MaxDay == 4
MaxRuns == 2
MaxEnvFailures == 2
MaxWeatherRows == 2

----------------------------------------------------------------------------
(* Values.                                                                 *)

Null == {}
Some(v) == {v}
Val(x) == CHOOSE v \in x : TRUE

Min(S) == CHOOSE x \in S : \A y \in S : x <= y
Max(S) == CHOOSE x \in S : \A y \in S : x >= y

RECURSIVE SumF(_, _)
SumF(f, S) ==
    IF S = {} THEN 0
    ELSE LET x == CHOOSE y \in S : TRUE IN f[x] + SumF(f, S \ {x})

Date(ts) == ts \div 24

----------------------------------------------------------------------------
(* Numeric helpers of the SQL engine.                                      *)

\* ROUND(x, 2) of the exact rational num/den (hundredths): PostgreSQL rounds
\* a numeric half away from zero.
RoundHalfAway(num, den) ==
    IF num >= 0 THEN (2 * num + den) \div (2 * den)
    ELSE 0 - ((den - 2 * num) \div (2 * den))

Round2(q) == RoundHalfAway(q[1], q[2])

RatAdd(a, b) == <<a[1] * b[2] + b[1] * a[2], a[2] * b[2]>>

RECURSIVE RatSumF(_, _)
RatSumF(f, S) ==
    IF S = {} THEN <<0, 1>>
    ELSE LET x == CHOOSE y \in S : TRUE IN RatAdd(f[x], RatSumF(f, S \ {x}))

\* AVG() over the values f[x], x in S, a NULL value being skipped.
AvgOfNullable(f, S) ==
    LET NN == {x \in S : f[x] # Null}
        t == RatSumF([x \in NN |-> Val(f[x])], NN)
    IN IF NN = {} THEN Null ELSE Some(<<t[1], t[2] * Cardinality(NN)>>)

\* The bag of the rows t[2] of a set T of <<identity, row>> pairs.
BagOfRows(T) ==
    [r \in {t[2] : t \in T} |-> Cardinality({t \in T : t[2] = r})]

----------------------------------------------------------------------------
(* Incremental ELT: the statement of transform_in_sql_task.                *)

AbnormalThreshold == 2500

\* Mutant: the end of the window taken inclusive.
InWindow_EndInclusive(r, w) == r.timestamp >= w.start /\ r.timestamp <= w.end

\* WHERE r.timestamp >= '{{ data_interval_start }}' AND r.timestamp < '{{ data_interval_end }}'
InWindow(r, w) == r.timestamp >= w.start /\ r.timestamp < w.end

\* Mutant: a reading without a sensor is kept, under the location of any
\* sensor (the join condition lost).
JoinedInWindow_NoCondition(readings, sensors, w) ==
    {p \in BagToSet(readings) \X BagToSet(sensors) :
        /\ InWindow(p[1], w)
        /\ \/ p[1].sensor_id = p[2].sensor_id
           \/ \A s \in BagToSet(sensors) : s.sensor_id # p[1].sensor_id}

\* FROM raw_readings r JOIN raw_sensors s ON r.sensor_id = s.sensor_id WHERE ...
\* A pair <<r, s>> stands for readings[r] * sensors[s] joined rows.
JoinedInWindow(readings, sensors, w) ==
    {p \in BagToSet(readings) \X BagToSet(sensors) :
        p[1].sensor_id = p[2].sensor_id /\ InWindow(p[1], w)}

\* Mutant: MIN and MAX exchanged.
SqlAggregates_MinMaxSwapped(G, readings, sensors) ==
    LET NN == {p \in G : p[1].temperature # Null}
        wt == [p \in NN |-> readings[p[1]] * sensors[p[2]]]
        n == SumF(wt, NN)
        sum == SumF([p \in NN |-> wt[p] * Val(p[1].temperature)], NN)
        vals == {Val(p[1].temperature) : p \in NN}
    IN [reading_count |-> n,
        avg_temp |-> IF n = 0 THEN Null ELSE Some(<<sum, n>>),
        min_temp |-> IF n = 0 THEN Null ELSE Some(Max(vals)),
        max_temp |-> IF n = 0 THEN Null ELSE Some(Min(vals))]

\* AVG / MIN / MAX / COUNT(r.temperature) of one group G of joined pairs.
SqlAggregates(G, readings, sensors) ==
    LET NN == {p \in G : p[1].temperature # Null}
        wt == [p \in NN |-> readings[p[1]] * sensors[p[2]]]
        n == SumF(wt, NN)
        sum == SumF([p \in NN |-> wt[p] * Val(p[1].temperature)], NN)
        vals == {Val(p[1].temperature) : p \in NN}
    IN [reading_count |-> n,
        avg_temp |-> IF n = 0 THEN Null ELSE Some(<<sum, n>>),
        min_temp |-> IF n = 0 THEN Null ELSE Some(Min(vals)),
        max_temp |-> IF n = 0 THEN Null ELSE Some(Max(vals))]

\* Mutant: GROUP BY r.sensor_id, s.location, DATE(r.timestamp).
DailyStats_BySensor(readings, sensors, w) ==
    LET J == JoinedInWindow(readings, sensors, w)
        keys == {<<p[2].location, Date(p[1].timestamp), p[1].sensor_id>> : p \in J}
    IN {LET a == SqlAggregates({p \in J : p[2].location = k[1]
                                        /\ Date(p[1].timestamp) = k[2]
                                        /\ p[1].sensor_id = k[3]},
                               readings, sensors)
        IN [location |-> k[1], date |-> k[2], reading_count |-> a.reading_count,
            avg_temp |-> a.avg_temp, min_temp |-> a.min_temp, max_temp |-> a.max_temp]
        : k \in keys}

\* The CTE daily_stats: GROUP BY s.location, DATE(r.timestamp).
DailyStats(readings, sensors, w) ==
    LET J == JoinedInWindow(readings, sensors, w)
        keys == {<<p[2].location, Date(p[1].timestamp)>> : p \in J}
    IN {LET a == SqlAggregates({p \in J : p[2].location = k[1]
                                        /\ Date(p[1].timestamp) = k[2]},
                               readings, sensors)
        IN [location |-> k[1], date |-> k[2], reading_count |-> a.reading_count,
            avg_temp |-> a.avg_temp, min_temp |-> a.min_temp, max_temp |-> a.max_temp]
        : k \in keys}

NoWeather == [condition |-> Null, avg_temp |-> Null]

\* The join as an inner join: a group without observation is dropped.
LeftJoinWeather_Inner(stats, weather) ==
    UNION {LET M == {x \in BagToSet(weather) :
                        x.location = d.location /\ x.date = d.date}
           IN UNION {{<<d, [condition |-> x.condition, avg_temp |-> x.avg_temp], k>> :
                         k \in 1 .. weather[x]} : x \in M}
           : d \in stats}

\* FROM daily_stats d LEFT JOIN raw_weather w ON d.location = w.location AND d.date = w.date
\* A joined row is <<d, w, k>>: k numbers the copies of the weather row w.
LeftJoinWeather(stats, weather) ==
    UNION {LET M == {x \in BagToSet(weather) :
                        x.location = d.location /\ x.date = d.date}
           IN IF M = {} THEN {<<d, NoWeather, 1>>}
              ELSE UNION {{<<d, [condition |-> x.condition, avg_temp |-> x.avg_temp], k>> :
                              k \in 1 .. weather[x]} : x \in M}
           : d \in stats}

\* ORDER BY d.date inside one partition: every order of the rows R that is
\* ascending in date (rows of equal date come in an unspecified order).
RECURSIVE DateOrders(_)
DateOrders(R) ==
    IF R = {} THEN {<<>>}
    ELSE LET first == {x \in R : \A y \in R : x[1].date <= y[1].date}
         IN UNION {{<<x>> \o t : t \in DateOrders(R \ {x})} : x \in first}

\* PARTITION BY d.location ORDER BY d.date: the orders the engine may use, one
\* sequence of joined rows per location.
PartitionOrders(J) ==
    LET locs == {x[1].location : x \in J}
        ords == [l \in locs |-> DateOrders({x \in J : x[1].location = l})]
    IN {f \in [locs -> UNION {ords[l] : l \in locs}] : \A l \in locs : f[l] \in ords[l]}

\* Mutant: ROWS BETWEEN 1 PRECEDING AND CURRENT ROW.
WindowAvg_OnePreceding(s, i) ==
    LET frame == {j \in 1 .. Len(s) : j >= i - 1 /\ j <= i}
    IN AvgOfNullable([j \in frame |-> s[j][1].avg_temp], frame)

\* AVG(d.avg_temp) OVER (... ROWS BETWEEN 2 PRECEDING AND CURRENT ROW) for
\* the row at position i of the ordered partition s.
WindowAvg(s, i) ==
    LET frame == {j \in 1 .. Len(s) : j >= i - 2 /\ j <= i}
    IN AvgOfNullable([j \in frame |-> s[j][1].avg_temp], frame)

RoundNullable(x) == IF x = Null THEN Null ELSE Some(Round2(Val(x)))

\* Mutant: the threshold taken inclusive (>= 25.0).
QualityFlag_Inclusive(max_temp) ==
    IF max_temp # Null /\ Round2(<<Val(max_temp), 1>>) >= AbnormalThreshold
    THEN "ABNORMAL" ELSE "NORMAL"

\* CASE WHEN ROUND(d.max_temp::numeric, 2) > 25.0 THEN 'ABNORMAL' ELSE 'NORMAL' END
QualityFlag(max_temp) ==
    IF max_temp # Null /\ Round2(<<Val(max_temp), 1>>) > AbnormalThreshold
    THEN "ABNORMAL" ELSE "NORMAL"

\* One row of the SELECT list, for the row at position i of the partition s.
SummaryRow(s, i) ==
    LET d == s[i][1]
        w == s[i][2]
    IN [location |-> d.location,
        date |-> d.date,
        avg_temp |-> RoundNullable(d.avg_temp),
        min_temp |-> IF d.min_temp = Null THEN Null ELSE Some(Round2(<<Val(d.min_temp), 1>>)),
        max_temp |-> IF d.max_temp = Null THEN Null ELSE Some(Round2(<<Val(d.max_temp), 1>>)),
        moving_avg_3day |-> RoundNullable(WindowAvg(s, i)),
        reading_count |-> d.reading_count,
        weather_condition |-> w.condition,
        weather_avg_temp |-> w.avg_temp,
        quality_flag |-> QualityFlag(d.max_temp)]

\* The rows the INSERT ... SELECT produces under the partition orders ord.
SelectSummary(ord) ==
    BagOfRows(UNION {{<<<<l, i>>, SummaryRow(ord[l], i)>> : i \in 1 .. Len(ord[l])} :
                        l \in DOMAIN ord})

\* The SELECT of transform_in_sql_task over the staging tables, for the
\* template parameters w: the bags of rows it may produce.
IncrementalSelect(readings, sensors, weather, w) ==
    {SelectSummary(ord) :
        ord \in PartitionOrders(LeftJoinWeather(DailyStats(readings, sensors, w), weather))}

----------------------------------------------------------------------------
(* Full-refresh ELT: the statement of transform_in_sql.  Its staging       *)
(* tables are the ones load_*_to_staging re-created (if_exists='replace'), *)
(* whose column types are those pandas inferred from the CSV files.        *)

\* The dtypes read_csv can give the temperature column of these readings:
\* object for a file without rows, int64 only when every value is a whole
\* number and none is missing, float64 otherwise.
TempDtypes(readings) ==
    IF BagToSet(readings) = {} THEN {"object"}
    ELSE IF \A r \in BagToSet(readings) :
                r.temperature # Null /\ Val(r.temperature) % 100 = 0
         THEN {"int64", "float64"}
         ELSE {"float64"}

\* The statement is rejected when a column type has no matching function or
\* operator: AVG(text) and bigint = text for a table made from an empty
\* frame, ROUND(double precision, integer) for a float64 temperature.
FullRefreshTypeError(readings, sensors, dtype) ==
    \/ BagToSet(readings) = {}
    \/ BagToSet(sensors) = {}
    \/ dtype # "int64"

\* FROM raw_readings r INNER JOIN raw_sensors s ON ... WHERE r.temperature IS NOT NULL
JoinedNotNull(readings, sensors) ==
    {p \in BagToSet(readings) \X BagToSet(sensors) :
        p[1].sensor_id = p[2].sensor_id /\ p[1].temperature # Null}

\* daily_stats and the SELECT list of the full-refresh statement.
FullRefreshSelect(readings, sensors) ==
    LET J == JoinedNotNull(readings, sensors)
        keys == {<<p[2].location, Date(p[1].timestamp)>> : p \in J}
    IN BagOfRows({LET a == SqlAggregates({p \in J : p[2].location = k[1]
                                                  /\ Date(p[1].timestamp) = k[2]},
                                         readings, sensors)
                  IN <<k, [location |-> k[1], date |-> k[2],
                           avg_temp |-> RoundNullable(a.avg_temp),
                           min_temp |-> a.min_temp,
                           max_temp |-> a.max_temp,
                           reading_count |-> a.reading_count]>>
                  : k \in keys})

----------------------------------------------------------------------------
(* pandas ETL: transform_data.                                             *)

\* The <<sum, n>> whose float64 mean lies on a tie of the second decimal and
\* whose product mean * 100 falls below the half in float64 (none for the
\* temperature values of Temps: 20.005, 22.505, 25.005, 27.505 all compute
\* to a product above the half).
FloatTiesBelowHalf == {}

\* Series.round(2) of the float64 mean sum / n: rint(mean * 100) / 100.
PandasRound2(q) ==
    LET lo == q[1] \div q[2]
        tie == 2 * (q[1] - lo * q[2]) = q[2]
    IN IF tie THEN (IF q \in FloatTiesBelowHalf THEN lo ELSE lo + 1)
       ELSE IF 2 * (q[1] - lo * q[2]) > q[2] THEN lo + 1 ELSE lo

\* readings_df.merge(sensors_df, on='sensor_id', how='inner')
Merged(readings, sensors) ==
    {p \in BagToSet(readings) \X BagToSet(sensors) : p[1].sensor_id = p[2].sensor_id}

\* groupby(['location', 'date'])['temperature'].agg(['mean', 'min', 'max', 'count'])
\* of one group G of merged pairs: NaN is skipped, count counts the rest.
PandasAgg(G, readings, sensors) ==
    LET NN == {p \in G : p[1].temperature # Null}
        wt == [p \in NN |-> readings[p[1]] * sensors[p[2]]]
        n == SumF(wt, NN)
        sum == SumF([p \in NN |-> wt[p] * Val(p[1].temperature)], NN)
        vals == {Val(p[1].temperature) : p \in NN}
    IN [count |-> n,
        mean |-> IF n = 0 THEN Null ELSE Some(<<sum, n>>),
        min |-> IF n = 0 THEN Null ELSE Some(Min(vals)),
        max |-> IF n = 0 THEN Null ELSE Some(Max(vals))]

\* summary_df of transform_data, after the three round(2).
PandasSummary(readings, sensors) ==
    LET M == Merged(readings, sensors)
        keys == {<<p[2].location, Date(p[1].timestamp)>> : p \in M}
    IN BagOfRows({LET a == PandasAgg({p \in M : p[2].location = k[1]
                                              /\ Date(p[1].timestamp) = k[2]},
                                     readings, sensors)
                  IN <<k, [location |-> k[1], date |-> k[2],
                           avg_temp |-> IF a.mean = Null THEN Null
                                        ELSE Some(PandasRound2(Val(a.mean))),
                           min_temp |-> a.min,
                           max_temp |-> a.max,
                           reading_count |-> a.count]>>
                  : k \in keys})

\* merged_df['timestamp'].dt.date raises for a readings frame without rows
\* (read_json leaves an empty column as object, not datetime64).
PandasRaises(readings) == BagToSet(readings) = {}

----------------------------------------------------------------------------
(* The input families.                                                     *)

Locations == {"Loc1", "Loc2"}
SensorIds == {1, 2, 3}
Temps == {2000, 2500, 2501, 3000}
NullableTemps == {Null} \cup {Some(t) : t \in Temps}

\* sensors.csv: sensor_id is unique; sensor 3 is in no directory but the second.
Directories ==
    {SetToBag({[sensor_id |-> 1, location |-> "Loc1"],
               [sensor_id |-> 2, location |-> "Loc2"]}),
     SetToBag({[sensor_id |-> 1, location |-> "Loc1"],
               [sensor_id |-> 2, location |-> "Loc1"],
               [sensor_id |-> 3, location |-> "Loc2"]})}

WeatherRow(l, d) ==
    [date |-> d, location |-> l, condition |-> Some("Sunny"), avg_temp |-> Some(2400)]

\* The execution window of day d: [d 00:00, d+1 00:00).
DayWindow(d) == [start |-> 24 * d, end |-> 24 * (d + 1)]

\* Timestamps around the window of day 1: before it, at its start, inside
\* it, at its end.
AggTimes == {12, 24, 36, 48}

AggReadings ==
    [sensor_id : SensorIds, temperature : NullableTemps, timestamp : AggTimes]

RECURSIVE BagsUpTo(_, _)
BagsUpTo(U, n) ==
    IF n = 0 THEN {EmptyBag}
    ELSE LET P == BagsUpTo(U, n - 1)
         IN P \cup {b (+) SetToBag({x}) : b \in P, x \in U}

AggReadingBags == BagsUpTo(AggReadings, MaxReadings)

AggWeathers ==
    {EmptyBag, SetToBag({WeatherRow(l, d) : l \in Locations, d \in 0 .. 2})}

NoOutput == [by |-> "none", ok |-> TRUE, rows |-> EmptyBag]

----------------------------------------------------------------------------
(* The incremental DAG elt_iot_pipeline: its tasks and their dependencies. *)

LoadTasks == {"load_sensors", "load_readings", "load_weather"}

Tasks ==
    {"create_staging_tables", "transform_in_sql", "validate_data", "optimize_queries",
     "branching_task", "send_alert_task", "no_alert_task", "log_metrics_task"}
    \cup LoadTasks

\* The dependencies with transform_in_sql_task waiting for the readings only.
Upstream_TransformAfterReadings(t) ==
    CASE t \in LoadTasks -> {"create_staging_tables"}
      [] t = "transform_in_sql" -> {"load_readings"}
      [] t = "validate_data" -> {"transform_in_sql"}
      [] t = "log_metrics_task" -> {"validate_data"}
      [] t = "branching_task" -> {"log_metrics_task"}
      [] t \in {"send_alert_task", "no_alert_task"} -> {"branching_task"}
      [] OTHER -> {}

\* create_staging_tables_task >> load_tasks >> transform_in_sql_task
\*   >> validate_data >> log_metrics_task >> branching_task
\*   >> [send_alert_task, no_alert_task];  optimize_queries has no upstream.
Upstream(t) ==
    CASE t \in LoadTasks -> {"create_staging_tables"}
      [] t = "transform_in_sql" -> LoadTasks
      [] t = "validate_data" -> {"transform_in_sql"}
      [] t = "log_metrics_task" -> {"validate_data"}
      [] t = "branching_task" -> {"log_metrics_task"}
      [] t \in {"send_alert_task", "no_alert_task"} -> {"branching_task"}
      [] OTHER -> {}

\* default_args['retries']
Retries == 1

NoCatalog == [table |-> FALSE, partitions |-> {}, index |-> FALSE]
NoFiles == [sensors |-> EmptyBag, readings |-> EmptyBag, weather |-> EmptyBag]

\* The full-refresh DAGs before any run: no staging table, no summary table.
NoRefresh ==
    [dag |-> "none", done |-> {}, failed |-> FALSE,
     staging |-> [sensors |-> Null, readings |-> Null],
     xcom |-> [sensors |-> Null, readings |-> Null, summary |-> Null],
     elt_table |-> Null, etl_table |-> Null, log |-> <<>>]

\* A SensorETLPipeline that was never constructed, no call, no pair of runs.
NoPipeline == [pc |-> "none"]
NoCall == [fn |-> "none"]
NoPair == [pc |-> "none"]

LibIdle ==
    /\ refresh = NoRefresh
    /\ pipeline = NoPipeline
    /\ call = NoCall
    /\ pair = NoPair

\* No DAG run: the state of the scheduler and of the warehouse before any.
DagIdle ==
    /\ files = NoFiles
    /\ summary = EmptyBag
    /\ catalog = NoCatalog
    /\ run = [no |-> 0, ds |-> 0, next_ds |-> 0, state |-> "none"]
    /\ state = [t \in Tasks |-> "none"]
    /\ tries = [t \in Tasks |-> 0]
    /\ result = [t \in Tasks |-> "none"]
    /\ emitted = EmptyBag
    /\ branch = "none"
    /\ env_budget = 0

InitAgg ==
    /\ raw_sensors \in Directories
    /\ raw_readings \in AggReadingBags
    /\ raw_weather \in AggWeathers
    /\ temp_dtype \in TempDtypes(raw_readings)
    /\ win = DayWindow(1)
    /\ out = NoOutput
    /\ DagIdle
    /\ LibIdle

\* transform_in_sql_task applied to the staging tables.
ApplyIncremental ==
    /\ out.by = "none"
    /\ \E rows \in IncrementalSelect(raw_readings, raw_sensors, raw_weather, win) :
          out' = [by |-> "incremental", ok |-> TRUE, rows |-> rows]
    /\ UNCHANGED <<raw_sensors, raw_readings, raw_weather, temp_dtype, win>>
    /\ UNCHANGED dagVars
    /\ UNCHANGED libVars

\* transform_in_sql (full refresh) applied to the staging tables.
ApplyFullRefresh ==
    /\ out.by = "none"
    /\ out' = IF FullRefreshTypeError(raw_readings, raw_sensors, temp_dtype)
              THEN [by |-> "full_refresh", ok |-> FALSE, rows |-> EmptyBag]
              ELSE [by |-> "full_refresh", ok |-> TRUE,
                    rows |-> FullRefreshSelect(raw_readings, raw_sensors)]
    /\ UNCHANGED <<raw_sensors, raw_readings, raw_weather, temp_dtype, win>>
    /\ UNCHANGED dagVars
    /\ UNCHANGED libVars

\* transform_data (pandas) applied to the extracted frames.
ApplyPandas ==
    /\ out.by = "none"
    /\ out' = IF PandasRaises(raw_readings)
              THEN [by |-> "pandas", ok |-> FALSE, rows |-> EmptyBag]
              ELSE [by |-> "pandas", ok |-> TRUE,
                    rows |-> PandasSummary(raw_readings, raw_sensors)]
    /\ UNCHANGED <<raw_sensors, raw_readings, raw_weather, temp_dtype, win>>
    /\ UNCHANGED dagVars
    /\ UNCHANGED libVars

NextAgg == ApplyIncremental \/ ApplyFullRefresh \/ ApplyPandas

SpecAgg == InitAgg /\ [][NextAgg]_vars

----------------------------------------------------------------------------
(* A second input family, for the moving average: a window of several      *)
(* days, at most one reading per sensor and day (at noon).                 *)

\* What one sensor reports on one day: nothing, or one reading.
WinChoices(sensor) ==
    IF sensor = 1 THEN {{}, {Null}, {Some(2000)}, {Some(2501)}}
    ELSE {{}, {Some(3000)}}

WinReadingBags ==
    {SetToBag(UNION {{[sensor_id |-> 1, temperature |-> t, timestamp |-> 24 * d + 12] :
                         t \in f[d]} \cup
                     {[sensor_id |-> 2, temperature |-> t, timestamp |-> 24 * d + 12] :
                         t \in g[d]} : d \in 1 .. MaxDay}) :
        f \in [1 .. MaxDay -> WinChoices(1)], g \in [1 .. MaxDay -> WinChoices(2)]}

InitWin ==
    /\ raw_sensors = SetToBag({[sensor_id |-> 1, location |-> "Loc1"],
                               [sensor_id |-> 2, location |-> "Loc2"]})
    /\ raw_readings \in WinReadingBags
    /\ raw_weather = SetToBag({WeatherRow(l, d) : l \in Locations, d \in 1 .. MaxDay})
    /\ temp_dtype \in TempDtypes(raw_readings)
    /\ win \in {[start |-> 24 * a, end |-> 24 * (MaxDay + 1)] : a \in 1 .. 2}
    /\ out = NoOutput
    /\ DagIdle
    /\ LibIdle

SpecWindow == InitWin /\ [][ApplyIncremental]_vars

----------------------------------------------------------------------------
(* Claims about the aggregation.                                           *)

RowsOf(loc) == {x \in BagToSet(out.rows) : x.location = loc}

\* The exact mean of the temperatures read in the execution window on date d
\* by the sensors of location loc (NULL when there is none).
C1_GroupMean(loc, d) ==
    LET P == {p \in BagToSet(raw_readings) \X BagToSet(raw_sensors) :
                 /\ p[1].sensor_id = p[2].sensor_id
                 /\ p[2].location = loc
                 /\ p[1].timestamp \div 24 = d
                 /\ win.start <= p[1].timestamp /\ p[1].timestamp < win.end
                 /\ p[1].temperature # Null}
        n == SumF([p \in P |-> raw_readings[p[1]] * raw_sensors[p[2]]], P)
        t == SumF([p \in P |-> raw_readings[p[1]] * raw_sensors[p[2]]
                                  * Val(p[1].temperature)], P)
    IN IF n = 0 THEN Null ELSE Some(<<t, n>>)

\* C1: moving_avg_3day of an emitted row is the 2-decimal rounding of the
\* mean of the average temperatures of the row's own date and of the (at
\* most) two dates of the same location that precede it in the result set,
\* whatever the calendar distance between them; rows of another location
\* never enter the window.  (An average that is NULL is skipped, as AVG
\* skips it.)
C1_MovingAvgWindow ==
    out.by = "incremental" =>
        \A row \in BagToSet(out.rows) :
            LET dates == {x.date : x \in RowsOf(row.location)}
                W == {d \in dates : d <= row.date
                         /\ Cardinality({e \in dates : d < e /\ e <= row.date}) <= 2}
                m == AvgOfNullable([d \in W |-> C1_GroupMean(row.location, d)], W)
            IN /\ out.rows[row] = 1
               /\ row.moving_avg_3day = (IF m = Null THEN Null
                                         ELSE Some(RoundHalfAway(Val(m)[1], Val(m)[2])))
               /\ (\A d \in dates : d >= row.date) => row.moving_avg_3day = row.avg_temp

\* C1 witness: Loc1 holds four dates D1<D2<D3<D4 in one result set, beside
\* rows of Loc2, and the moving average of D4 differs from the mean over all
\* four dates.
C1_Witness ==
    /\ out.by = "incremental"
    /\ {x.date : x \in RowsOf("Loc1")} = 1 .. 4
    /\ RowsOf("Loc2") # {}
    /\ \E x \in RowsOf("Loc1") : x.date = 1 /\ x.avg_temp = Some(2000)
    /\ \A x \in RowsOf("Loc1") : x.date > 1 => x.avg_temp = Some(2501)
    /\ \E x \in RowsOf("Loc1") : x.date = 3 /\ x.moving_avg_3day = Some(2334)
    /\ \E x \in RowsOf("Loc1") : x.date = 4 /\ x.moving_avg_3day = Some(2501)

\* The sub-bag of the rows of bag B that satisfy keep.
FilterBag(B, keep(_)) == [x \in {y \in BagToSet(B) : keep(y)} |-> B[x]]

EverythingWindow == [start |-> 0, end |-> 24 * (MaxDay + 2)]

C2_InScope(r) == win.start <= r.timestamp /\ r.timestamp < win.end

\* C2: the rows an incremental run emits are those the aggregation gives for
\* the readings with start <= timestamp < end alone: a reading at the start
\* is counted, a reading at the end or later, or before the start, is
\* counted in no row.
C2_WindowFilter ==
    out.by = "incremental" =>
        /\ out.rows \in IncrementalSelect(FilterBag(raw_readings, C2_InScope), raw_sensors,
                                         raw_weather, EverythingWindow)
        /\ \A row \in BagToSet(out.rows) :
              win.start <= 24 * row.date + 23 /\ 24 * row.date < win.end

\* C2 witness: one reading at the start and one at the end of the window, of
\* a known sensor; the run emitted one row, which counts one reading.
C2_Witness ==
    /\ out.by = "incremental"
    /\ \E r \in BagToSet(raw_readings) :
          r.timestamp = win.start /\ r.sensor_id = 1 /\ r.temperature # Null
    /\ \E r \in BagToSet(raw_readings) :
          r.timestamp = win.end /\ r.sensor_id = 1 /\ r.temperature # Null
    /\ BagCardinality(out.rows) = 1
    /\ \A row \in BagToSet(out.rows) : row.reading_count = 1

C3_Known(r) == \E s \in BagToSet(raw_sensors) : s.sensor_id = r.sensor_id

\* C3: in the three transforms the emitted rows are those of the readings
\* with a known sensor alone, and every emitted row carries a location of
\* the sensor directory (never NULL).
C3_UnknownSensorsExcluded ==
    /\ out.by = "incremental" =>
          out.rows \in IncrementalSelect(FilterBag(raw_readings, C3_Known), raw_sensors,
                                         raw_weather, win)
    /\ (out.by = "full_refresh" /\ out.ok) =>
          out.rows = FullRefreshSelect(FilterBag(raw_readings, C3_Known), raw_sensors)
    /\ (out.by = "pandas" /\ out.ok) =>
          out.rows = PandasSummary(FilterBag(raw_readings, C3_Known), raw_sensors)
    /\ \A row \in BagToSet(out.rows) :
          \E s \in BagToSet(raw_sensors) : s.location = row.location

\* C3 witness: a reading of an unknown sensor shares the window with a
\* reading of a known one, and a row was emitted.
C3_Witness ==
    /\ out.by = "incremental"
    /\ \E r \in BagToSet(raw_readings) : ~C3_Known(r) /\ C2_InScope(r) /\ r.temperature # Null
    /\ BagCardinality(out.rows) = 1
    /\ \A row \in BagToSet(out.rows) : row.reading_count = 1

\* C4 (as claimed): every emitted row has reading_count >= 1.
C4_ReadingCountPositive ==
    \A row \in BagToSet(out.rows) : row.reading_count >= 1

\* The temperatures (with their multiplicity) of the joined readings of the
\* group (loc, d) that the transform out.by reads.
C5_Group(loc, d) ==
    {p \in BagToSet(raw_readings) \X BagToSet(raw_sensors) :
        /\ p[1].sensor_id = p[2].sensor_id
        /\ p[2].location = loc
        /\ p[1].timestamp \div 24 = d
        /\ out.by = "incremental" => C2_InScope(p[1])
        /\ out.by = "full_refresh" => p[1].temperature # Null}

C5_Copies(p) == raw_readings[p[1]] * raw_sensors[p[2]]

C5_Example ==
    /\ raw_readings = SetToBag({[sensor_id |-> 1, temperature |-> Some(2000), timestamp |-> 24],
                                [sensor_id |-> 1, temperature |-> Some(3000), timestamp |-> 36]})
    /\ raw_weather # EmptyBag

\* C5: every group of joined readings gives exactly one row, whose
\* reading_count is the number of its temperatures, min_temp and max_temp
\* their minimum and maximum and avg_temp their mean to 2 decimals; the
\* readings 20.0 and 30.0 of one sensor of Loc1 on one day with Sunny weather
\* give the one row (Loc1, avg 25.0, min 20.0, max 30.0, count 2, ABNORMAL,
\* Sunny).
C5_GroupStatistics ==
    (out.by # "none" /\ out.ok) =>
        /\ \A p \in BagToSet(raw_readings) \X BagToSet(raw_sensors) :
              p \in C5_Group(p[2].location, p[1].timestamp \div 24) =>
                  \E row \in BagToSet(out.rows) :
                      row.location = p[2].location /\ row.date = p[1].timestamp \div 24
        /\ \A row \in BagToSet(out.rows) :
              LET G == {p \in C5_Group(row.location, row.date) : p[1].temperature # Null}
                  n == SumF([p \in G |-> C5_Copies(p)], G)
                  t == SumF([p \in G |-> C5_Copies(p) * Val(p[1].temperature)], G)
              IN /\ out.rows[row] = 1
                 /\ \A other \in BagToSet(out.rows) :
                       (other.location = row.location /\ other.date = row.date)
                           => other = row
                 /\ row.reading_count = n
                 /\ n = 0 => row.avg_temp = Null /\ row.min_temp = Null /\ row.max_temp = Null
                 /\ n > 0 =>
                       /\ \A p \in G : Val(row.min_temp) <= Val(p[1].temperature)
                                       /\ Val(p[1].temperature) <= Val(row.max_temp)
                       /\ \E p \in G : Val(p[1].temperature) = Val(row.min_temp)
                       /\ \E p \in G : Val(p[1].temperature) = Val(row.max_temp)
                       /\ 2 * (Val(row.avg_temp) * n - t) <= n
                       /\ 2 * (t - Val(row.avg_temp) * n) <= n
        /\ (C5_Example /\ out.by = "incremental") =>
              out.rows = SetToBag({[location |-> "Loc1", date |-> 1,
                                    avg_temp |-> Some(2500), min_temp |-> Some(2000),
                                    max_temp |-> Some(3000), moving_avg_3day |-> Some(2500),
                                    reading_count |-> 2, weather_condition |-> Some("Sunny"),
                                    weather_avg_temp |-> Some(2400),
                                    quality_flag |-> "ABNORMAL"]})

\* C5 witness: the example's inputs, aggregated by the incremental transform.
C5_Witness ==
    /\ C5_Example
    /\ out.by = "incremental"
    /\ BagCardinality(out.rows) = 1

\* C6: quality_flag is 'ABNORMAL' exactly when the row's max_temp (2
\* decimals) is strictly greater than 25.0 and 'NORMAL' otherwise; no other
\* value is emitted.
C6_QualityFlag ==
    out.by = "incremental" =>
        \A row \in BagToSet(out.rows) :
            /\ row.quality_flag \in {"ABNORMAL", "NORMAL"}
            /\ row.quality_flag = "ABNORMAL" <=>
                  (row.max_temp # Null /\ Val(row.max_temp) > 2500)

\* C6 witness: a row with max_temp 25.00 flagged NORMAL beside a row with
\* max_temp 25.01 flagged ABNORMAL.
C6_Witness ==
    /\ out.by = "incremental"
    /\ \E row \in BagToSet(out.rows) :
          row.max_temp = Some(2500) /\ row.quality_flag = "NORMAL"
    /\ \E row \in BagToSet(out.rows) :
          row.max_temp = Some(2501) /\ row.quality_flag = "ABNORMAL"

----------------------------------------------------------------------------
(* The incremental DAG: what each task does to the warehouse.              *)

\* The dates as the templates render them ('{{ ds }}'), by day number.
DateTexts == <<"2025-09-22", "2025-09-23", "2025-09-24", "2025-09-25", "2025-09-26">>

\* Jinja's rendering of {{ ds }} / {{ next_ds }} for the day d.
RenderDate(d) == DateTexts[d]

\* PostgreSQL's reading of a string literal as a DATE: NULL stands for the
\* error "invalid input syntax for type date".
ParseDate(text) == {d \in DOMAIN DateTexts : DateTexts[d] = text}

\* The database as an attempt finds it.
Db ==
    [raw_sensors |-> raw_sensors, raw_readings |-> raw_readings,
     raw_weather |-> raw_weather, summary |-> summary, catalog |-> catalog,
     emitted |-> emitted, branch |-> branch]

\* An attempt that raised: its transaction is rolled back.
Raised == [raised |-> TRUE, db |-> Db]
Done(db) == [raised |-> FALSE, db |-> db]

\* Mutant: the summary table is truncated with the staging tables.
create_staging_tables_task_TruncateSummary ==
    {Done([Db EXCEPT !.raw_sensors = EmptyBag, !.raw_readings = EmptyBag,
                     !.raw_weather = EmptyBag, !.summary = EmptyBag])}

\* CREATE TABLE IF NOT EXISTS raw_...; TRUNCATE TABLE raw_sensors, raw_readings, raw_weather
create_staging_tables_task ==
    {Done([Db EXCEPT !.raw_sensors = EmptyBag, !.raw_readings = EmptyBag,
                     !.raw_weather = EmptyBag])}

\* sensors_df.to_sql('raw_sensors', ..., if_exists='append')
load_sensors_to_staging == {Done([Db EXCEPT !.raw_sensors = @ (+) files.sensors])}

load_readings_to_staging == {Done([Db EXCEPT !.raw_readings = @ (+) files.readings])}

load_weather_to_staging == {Done([Db EXCEPT !.raw_weather = @ (+) files.weather])}

\* Mutant: the window function also reads the rows of the two preceding
\* dates that earlier runs stored in the summary table.
transform_in_sql_rendered_WindowOverTable(r, w, db) ==
    LET from == ParseDate(RenderDate(r.ds))
        to == ParseDate(RenderDate(r.next_ds))
        exists == r.ds \in db.catalog.partitions
        parts == IF exists THEN db.catalog.partitions
                 ELSE db.catalog.partitions \cup {d \in Val(from) .. Val(to) - 1 : TRUE}
        failed == [raised |-> TRUE, db |-> db]
        stored(row) == {x \in BagToSet(db.summary) :
                           /\ x.location = row.location
                           /\ x.date < row.date
                           /\ x.date >= row.date - 2
                           /\ x.avg_temp # Null}
        over(row) == IF row.avg_temp = Null \/ stored(row) = {} THEN row
                     ELSE [row EXCEPT !.moving_avg_3day =
                              Some(Round2(<<Val(row.avg_temp)
                                              + SumF([x \in stored(row) |-> Val(x.avg_temp)],
                                                     stored(row)),
                                            1 + Cardinality(stored(row))>>))]
        widened(rows) ==
            BagOfRows({<<p, over(p[1])>> :
                          p \in {q \in BagToSet(rows) \X (1 .. BagCardinality(rows)) :
                                    q[2] <= rows[q[1]]}})
    IN IF ~exists /\ ~(Val(from) < Val(to))
       THEN {failed}
       ELSE {IF \A row \in BagToSet(rows) : row.date \in parts
             THEN Done([db EXCEPT !.catalog = [@ EXCEPT !.table = TRUE, !.partitions = parts],
                                  !.summary = @ (+) widened(rows),
                                  !.emitted = widened(rows)])
             ELSE failed
             : rows \in IncrementalSelect(db.raw_readings, db.raw_sensors,
                                          db.raw_weather, w)}

\* CREATE TABLE IF NOT EXISTS daily_sensor_summary_elt ... PARTITION BY RANGE (date);
\* CREATE TABLE IF NOT EXISTS summary_partition_{{ ds_nodash }} ... FROM ('{{ ds }}') TO ('{{ next_ds }}');
\* INSERT INTO daily_sensor_summary_elt WITH daily_stats AS (...) SELECT ...
\* The partitions are kept as the dates they cover; a partition of a daily
\* run covers its ds and is named after it.  IF NOT EXISTS skips a partition
\* whose name exists; a new partition whose bounds are not FROM < TO is
\* rejected ("empty range bound"); a row whose date lies in no partition makes
\* the INSERT fail.  A failure undoes the whole statement.
\* The statement is rendered for the run r (its ds and next_ds) and its data
\* interval w, and executed on the database db.
transform_in_sql_rendered(r, w, db) ==
    LET from == ParseDate(RenderDate(r.ds))
        to == ParseDate(RenderDate(r.next_ds))
        exists == r.ds \in db.catalog.partitions
        parts == IF exists THEN db.catalog.partitions
                 ELSE db.catalog.partitions \cup {d \in Val(from) .. Val(to) - 1 : TRUE}
        failed == [raised |-> TRUE, db |-> db]
    IN IF ~exists /\ ~(Val(from) < Val(to))
       THEN {failed}
       ELSE {IF \A row \in BagToSet(rows) : row.date \in parts
             THEN Done([db EXCEPT !.catalog = [@ EXCEPT !.table = TRUE, !.partitions = parts],
                                  !.summary = @ (+) rows,
                                  !.emitted = rows])
             ELSE failed
             : rows \in IncrementalSelect(db.raw_readings, db.raw_sensors,
                                          db.raw_weather, w)}

transform_in_sql_task == transform_in_sql_rendered(run, win, Db)

\* The DO block with its first check only.
ValidationFails_EmptyOnly(table) == BagCardinality(table) = 0

\* The two checks of the DO block.
ValidationFails(table) ==
    \/ BagCardinality(table) = 0
    \/ BagCardinality([x \in {y \in BagToSet(table) : y.weather_condition = Null}
                          |-> table[x]]) > 0

\* Mutant: a failed validation deletes the rows the run inserted.
validate_data_DeleteOnFailure ==
    {IF ValidationFails(summary)
     THEN [raised |-> TRUE, db |-> [Db EXCEPT !.summary = @ (-) emitted]]
     ELSE Done(Db)}

\* The DO block raises or returns; it changes nothing.
validate_data == {IF ValidationFails(summary) THEN Raised ELSE Done(Db)}

\* CREATE INDEX IF NOT EXISTS idx_summary_location_date ON daily_sensor_summary_elt(location, date)
optimize_queries_task ==
    {IF catalog.table THEN Done([Db EXCEPT !.catalog = [@ EXCEPT !.index = TRUE]])
     ELSE Raised}

\* log_summary_metrics: AVG(avg_temp) over the table is None when no row has
\* an avg_temp, and f"{None:.2f}" raises.
log_summary_metrics ==
    {IF \A row \in BagToSet(summary) : row.avg_temp = Null THEN Raised ELSE Done(Db)}

\* The date literal of the query of check_for_anomalies: the body of a
\* python_callable is not a templated field, the text reaches the database
\* as written.
AnomalyQueryDate == "{{ ds }}"

\* check_for_anomalies: SELECT COUNT(*) ... WHERE quality_flag = 'ABNORMAL' AND date = <literal>
check_for_anomalies ==
    LET d == ParseDate(AnomalyQueryDate)
        hits == {row \in BagToSet(summary) :
                    row.quality_flag = "ABNORMAL" /\ d # Null /\ row.date = Val(d)}
    IN {IF d = Null THEN Raised
        ELSE Done([Db EXCEPT !.branch = IF hits # {} THEN "send_alert_task"
                                        ELSE "no_alert_task"])}

\* The outcomes of one attempt of task t.
Execute(t) ==
    CASE t = "create_staging_tables" -> create_staging_tables_task
      [] t = "load_sensors" -> load_sensors_to_staging
      [] t = "load_readings" -> load_readings_to_staging
      [] t = "load_weather" -> load_weather_to_staging
      [] t = "transform_in_sql" -> transform_in_sql_task
      [] t = "validate_data" -> validate_data
      [] t = "optimize_queries" -> optimize_queries_task
      [] t = "log_metrics_task" -> log_summary_metrics
      [] t = "branching_task" -> check_for_anomalies
      [] OTHER -> {Done(Db)}

----------------------------------------------------------------------------
(* The incremental DAG: the scheduler.                                     *)

DummyTasks == {"send_alert_task", "no_alert_task"}
LeafTasks == {"send_alert_task", "no_alert_task", "optimize_queries"}
Terminal == {"success", "failed", "upstream_failed", "skipped"}

RECURSIVE Ancestors(_)
Ancestors(t) == Upstream(t) \cup UNION {Ancestors(u) : u \in Upstream(t)}

Descendants(t) == {u \in Tasks : t \in Ancestors(u)}

\* Trigger rule all_success: every upstream task instance succeeded.
Ready(t) ==
    /\ run.state = "running"
    /\ state[t] \in {"none", "up_for_retry"}
    /\ \A u \in Upstream(t) : state[u] = "success"

\* The states of the task instances after an attempt of t: a failed attempt
\* is retried `Retries` times, then t is failed and everything downstream of
\* it upstream_failed; the branch operator skips the task it did not choose.
StatesAfter(t, failed, chosen) ==
    IF failed
    THEN IF tries[t] < Retries
         THEN [state EXCEPT ![t] = "up_for_retry"]
         ELSE [u \in Tasks |-> IF u = t THEN "failed"
                               ELSE IF u \in Descendants(t) THEN "upstream_failed"
                               ELSE state[u]]
    ELSE [u \in Tasks |-> IF u = t THEN "success"
                          ELSE IF t = "branching_task" /\ u \in DummyTasks \ {chosen}
                               THEN "skipped"
                          ELSE state[u]]

\* The files of DATA_DIR: two days of readings of sensor 1 (Loc1) and of a
\* sensor 3 that sensors.csv does not list.
DagReadings ==
    [sensor_id : {1}, temperature : {Some(2500), Some(2501)}, timestamp : {36, 60}]
    \cup {[sensor_id |-> 1, temperature |-> Null, timestamp |-> 36],
          [sensor_id |-> 3, temperature |-> Some(2501), timestamp |-> 36]}

DagSensors ==
    SetToBag({[sensor_id |-> 1, location |-> "Loc1"], [sensor_id |-> 2, location |-> "Loc2"]})

DagWeathers ==
    {EmptyBag, SetToBag({WeatherRow("Loc1", 1)}),
     SetToBag({WeatherRow(l, d) : l \in Locations, d \in 1 .. 2})}

DagFiles ==
    [sensors : {DagSensors}, readings : BagsUpTo(DagReadings, MaxReadings),
     weather : DagWeathers]

\* The files of the runs in which the environment may fail.
FaultFiles ==
    [sensors : {DagSensors},
     readings : {EmptyBag,
                 SetToBag({[sensor_id |-> 1, temperature |-> Some(2501), timestamp |-> 36]})},
     weather : {EmptyBag, SetToBag({WeatherRow(l, d) : l \in Locations, d \in 1 .. 2})}]

RunDays == {1, 2}

Init ==
    /\ \/ files \in DagFiles /\ env_budget = 0
       \/ files \in FaultFiles /\ env_budget = MaxEnvFailures
    /\ raw_sensors = EmptyBag
    /\ raw_readings = EmptyBag
    /\ raw_weather = EmptyBag
    /\ temp_dtype = "float64"
    /\ win = DayWindow(0)
    /\ out = NoOutput
    /\ summary = EmptyBag
    /\ catalog = NoCatalog
    /\ run = [no |-> 0, ds |-> 0, next_ds |-> 0, state |-> "none"]
    /\ state = [t \in Tasks |-> "none"]
    /\ tries = [t \in Tasks |-> 0]
    /\ result = [t \in Tasks |-> "none"]
    /\ emitted = EmptyBag
    /\ branch = "none"
    /\ LibIdle

\* The scheduler creates the run of logical date d: its data interval is
\* the day d.
StartRun ==
    /\ run.state # "running"
    /\ run.no < MaxRuns
    /\ \E d \in RunDays :
          /\ run' = [no |-> run.no + 1, ds |-> d, next_ds |-> d + 1, state |-> "running"]
          /\ win' = DayWindow(d)
    /\ state' = [t \in Tasks |-> "none"]
    /\ tries' = [t \in Tasks |-> 0]
    /\ result' = [t \in Tasks |-> "none"]
    /\ emitted' = EmptyBag
    /\ branch' = "none"
    /\ UNCHANGED <<raw_sensors, raw_readings, raw_weather, temp_dtype, out, files, summary,
                   catalog, env_budget>>
    /\ UNCHANGED libVars

\* One attempt of a task instance whose trigger rule is met: it runs the
\* task's code, or is lost to the environment (database or file system
\* unavailable) before changing anything.
RunTask ==
    \E t \in Tasks :
        /\ Ready(t)
        /\ \E env \in {e \in BOOLEAN : e => env_budget > 0 /\ t \notin DummyTasks} :
           \E o \in (IF env THEN {Raised} ELSE Execute(t)) :
              /\ tries' = [tries EXCEPT ![t] = @ + 1]
              /\ result' = [result EXCEPT ![t] = IF env THEN "env_error"
                                                 ELSE IF o.raised THEN "raised" ELSE "ok"]
              /\ state' = StatesAfter(t, o.raised, o.db.branch)
              /\ env_budget' = IF env THEN env_budget - 1 ELSE env_budget
              /\ raw_sensors' = o.db.raw_sensors
              /\ raw_readings' = o.db.raw_readings
              /\ raw_weather' = o.db.raw_weather
              /\ summary' = o.db.summary
              /\ catalog' = o.db.catalog
              /\ emitted' = o.db.emitted
              /\ branch' = o.db.branch
        /\ UNCHANGED <<temp_dtype, win, out, files, run>>
        /\ UNCHANGED libVars

\* The run ends when every task instance is in a final state: success when
\* every leaf succeeded or was skipped, failed otherwise.
FinishRun ==
    /\ run.state = "running"
    /\ \A t \in Tasks : state[t] \in Terminal
    /\ run' = [run EXCEPT !.state = IF \A t \in LeafTasks : state[t] \in {"success", "skipped"}
                                    THEN "success" ELSE "failed"]
    /\ UNCHANGED <<raw_sensors, raw_readings, raw_weather, temp_dtype, win, out, files,
                   summary, catalog, state, tries, result, emitted, branch, env_budget>>
    /\ UNCHANGED libVars

Next == StartRun \/ RunTask \/ FinishRun

Spec == Init /\ [][Next]_vars

----------------------------------------------------------------------------
(* Claims about the incremental DAG.                                       *)

\* C7: an attempt of validate_data that reaches the database fails exactly
\* when daily_sensor_summary_elt holds no row or holds a row whose
\* weather_condition is null, succeeds otherwise, and in both cases leaves
\* the rows of the table as they were.
C7_Validation ==
    [][(tries'["validate_data"] = tries["validate_data"] + 1
        /\ result'["validate_data"] # "env_error")
       => /\ summary' = summary
          /\ result'["validate_data"] \in {"ok", "raised"}
          /\ result'["validate_data"] = "raised" <=>
                \/ BagToSet(summary) = {}
                \/ \E row \in BagToSet(summary) : row.weather_condition = Null]_vars

\* C7 witness: validate_data has failed over a table that is not empty (a
\* row without weather), the rows still there.
C7_Witness ==
    /\ state["validate_data"] = "failed"
    /\ result["validate_data"] = "raised"
    /\ \E row \in BagToSet(summary) : row.weather_condition = Null
    /\ \E row \in BagToSet(summary) : row.weather_condition # Null

\* No row of the joined staging tables lies in the window of the run.
C8_NoSurvivor == JoinedInWindow(raw_readings, raw_sensors, win) = {}

\* C8: when no reading survives the window filter and the join, the
\* aggregation fails with an error, emits no row and creates neither the
\* summary table nor a partition.
C8_EmptyInputFails ==
    (result["transform_in_sql"] \in {"ok", "raised"} /\ C8_NoSurvivor)
    => /\ result["transform_in_sql"] = "raised"
       /\ emitted = EmptyBag
       /\ run.no = 1 => (~catalog.table /\ catalog.partitions = {})

\* The order the claim gives: each pair is <<earlier, later>>.
C9_Order ==
    {<<"create_staging_tables", l>> : l \in {"load_sensors", "load_readings", "load_weather"}}
    \cup {<<l, "transform_in_sql">> : l \in {"load_sensors", "load_readings", "load_weather"}}
    \cup {<<"transform_in_sql", "validate_data">>, <<"validate_data", "log_metrics_task">>,
          <<"log_metrics_task", "branching_task">>, <<"branching_task", "send_alert_task">>,
          <<"branching_task", "no_alert_task">>}

RECURSIVE C9_After(_)
C9_After(u) ==
    LET next == {p[2] : p \in {q \in C9_Order : q[1] = u}}
    IN next \cup UNION {C9_After(t) : t \in next}

\* C9: in a run a task is attempted only once every task before it in the
\* order create staging, loads, transform, validate, log metrics, branching,
\* alert step has succeeded; after a task has failed nothing after it is
\* ever attempted, and the run does not end in success.
C9_TaskOrder ==
    /\ \A p \in C9_Order : tries[p[2]] > 0 => state[p[1]] = "success"
    /\ \A u \in Tasks :
          state[u] = "failed" =>
              /\ \A t \in C9_After(u) : tries[t] = 0 /\ state[t] # "success"
              /\ run.state # "success"
    /\ ~(tries["send_alert_task"] > 0 /\ tries["no_alert_task"] > 0)

\* C9 witness: the run has ended failed with the readings' load failed for
\* good beside two loads that succeeded, and nothing after the loads was
\* attempted.
C9_Witness ==
    /\ run.state = "failed"
    /\ state["load_readings"] = "failed"
    /\ state["load_sensors"] = "success"
    /\ state["load_weather"] = "success"
    /\ tries["transform_in_sql"] = 0

\* C10: a run that reaches the branching step runs exactly one of
\* send_alert_task and no_alert_task: send_alert_task exactly when the run
\* emitted a row flagged ABNORMAL.
C10_AlertIffAbnormal ==
    (run.state \in {"success", "failed"} /\ tries["branching_task"] > 0)
    => LET abnormal == \E row \in BagToSet(emitted) : row.quality_flag = "ABNORMAL"
       IN /\ state["send_alert_task"] = "success" <=> abnormal
          /\ state["no_alert_task"] = "success" <=> ~abnormal

\* The number of rows of the summary table with the key (loc, d).
C11_RowsWithKey(loc, d) ==
    LET K == {row \in BagToSet(summary) : row.location = loc /\ row.date = d}
    IN SumF([row \in K |-> summary[row]], K)

\* C11: after any sequence of runs, a repeated run for an already processed
\* day included, daily_sensor_summary_elt holds at most one row per
\* (location, date).
C11_OneRowPerKey ==
    \A row \in BagToSet(summary) : C11_RowsWithKey(row.location, row.date) <= 1

----------------------------------------------------------------------------
(* The full-refresh DAGs: elt_iot_pipeline (transform in the database) and *)
(* etl_iot_pipeline (transform in pandas).  A table is Null while it does  *)
(* not exist and Some(bag of rows) once created.                           *)

EltTasks ==
    {"create_staging_tables", "load_sensors", "load_readings", "transform_in_sql",
     "data_quality_checks", "verify_elt_results"}

EtlTasks == {"create_etl_table", "extract", "transform", "load", "verify_etl_data"}

\* create_staging_tables >> [load_sensors_task, load_readings_task]
\*   >> transform_in_sql >> quality_checks >> verify_results
EltUpstream(t) ==
    CASE t \in {"load_sensors", "load_readings"} -> {"create_staging_tables"}
      [] t = "transform_in_sql" -> {"load_sensors", "load_readings"}
      [] t = "data_quality_checks" -> {"transform_in_sql"}
      [] t = "verify_elt_results" -> {"data_quality_checks"}
      [] OTHER -> {}

\* create_table >> extract_task >> transform_task >> load_task >> verify_data
EtlUpstream(t) ==
    CASE t = "extract" -> {"create_etl_table"}
      [] t = "transform" -> {"extract"}
      [] t = "load" -> {"transform"}
      [] t = "verify_etl_data" -> {"load"}
      [] OTHER -> {}

RefreshTasks(dag) == IF dag = "elt" THEN EltTasks ELSE IF dag = "etl" THEN EtlTasks ELSE {}

RefreshUpstream(dag, t) == IF dag = "elt" THEN EltUpstream(t) ELSE EtlUpstream(t)

\* An attempt that raised leaves the database as it found it.
RfRaised == [raised |-> TRUE, rf |-> refresh]
RfDone(rf) == [raised |-> FALSE, rf |-> rf]

\* DROP TABLE IF EXISTS raw_sensors CASCADE; DROP TABLE IF EXISTS raw_readings CASCADE;
\* CREATE TABLE raw_sensors (...); CREATE TABLE raw_readings (...)
elt_create_staging_tables ==
    RfDone([refresh EXCEPT !.staging = [sensors |-> Some(EmptyBag),
                                        readings |-> Some(EmptyBag)]])

\* sensors_df.to_sql('raw_sensors', ..., if_exists='replace')
elt_load_sensors == RfDone([refresh EXCEPT !.staging.sensors = Some(files.sensors)])

\* readings_df.to_sql('raw_readings', ..., if_exists='replace')
elt_load_readings == RfDone([refresh EXCEPT !.staging.readings = Some(files.readings)])

\* The statement of transform_in_sql with INSERT INTO in the place of
\* DROP TABLE IF EXISTS ...; CREATE TABLE ... AS.
transform_in_sql_Append ==
    LET readings == Val(refresh.staging.readings)
        sensors == Val(refresh.staging.sensors)
        old == IF refresh.elt_table = Null THEN EmptyBag ELSE Val(refresh.elt_table)
    IN IF FullRefreshTypeError(readings, sensors, temp_dtype) THEN RfRaised
       ELSE RfDone([refresh EXCEPT
                       !.elt_table = Some(old (+) FullRefreshSelect(readings, sensors))])

\* DROP TABLE IF EXISTS daily_sensor_summary_elt;
\* CREATE TABLE daily_sensor_summary_elt AS WITH daily_stats AS (...) SELECT ...;
\* one transaction: a rejected statement leaves the table as it was.
transform_in_sql ==
    LET readings == Val(refresh.staging.readings)
        sensors == Val(refresh.staging.sensors)
    IN IF FullRefreshTypeError(readings, sensors, temp_dtype) THEN RfRaised
       ELSE RfDone([refresh EXCEPT
                       !.elt_table = Some(FullRefreshSelect(readings, sensors))])

\* quality_checks: the three RAISE EXCEPTION of the DO block.
data_quality_checks ==
    IF \/ BagCardinality(Val(refresh.staging.sensors)) = 0
       \/ BagCardinality(Val(refresh.staging.readings)) = 0
       \/ BagCardinality(Val(refresh.elt_table)) = 0
    THEN RfRaised ELSE RfDone(refresh)

\* verify_results: a SELECT over daily_sensor_summary_elt.
verify_elt_results == RfDone(refresh)

\* Mutant: CREATE TABLE IF NOT EXISTS daily_sensor_summary_etl (...), no DROP.
create_etl_table_KeepExisting ==
    RfDone([refresh EXCEPT !.etl_table = IF @ = Null THEN Some(EmptyBag) ELSE @])

\* DROP TABLE IF EXISTS daily_sensor_summary_etl; CREATE TABLE daily_sensor_summary_etl (...)
create_etl_table == RfDone([refresh EXCEPT !.etl_table = Some(EmptyBag)])

\* extract_data: read_csv of both files, pushed to XCom.
extract_data ==
    RfDone([refresh EXCEPT !.xcom = [sensors |-> Some(files.sensors),
                                     readings |-> Some(files.readings),
                                     summary |-> Null]])

\* transform_data: the summary frame pushed to XCom.
transform_data ==
    LET readings == Val(refresh.xcom.readings)
        sensors == Val(refresh.xcom.sensors)
    IN IF PandasRaises(readings) THEN RfRaised
       ELSE RfDone([refresh EXCEPT !.xcom.summary = Some(PandasSummary(readings, sensors))])

\* load_data: summary_df.to_sql('daily_sensor_summary_etl', ..., if_exists='replace')
load_data == RfDone([refresh EXCEPT !.etl_table = refresh.xcom.summary])

\* verify_data: ROUND(AVG(avg_temp), 2) over the table to_sql re-created,
\* whose avg_temp is double precision (text for a frame without rows): the
\* statement is rejected.
verify_etl_data == RfRaised

\* One attempt of task t of the DAG.
RefreshExecute(dag, t) ==
    IF dag = "elt"
    THEN CASE t = "create_staging_tables" -> elt_create_staging_tables
           [] t = "load_sensors" -> elt_load_sensors
           [] t = "load_readings" -> elt_load_readings
           [] t = "transform_in_sql" -> transform_in_sql
           [] t = "data_quality_checks" -> data_quality_checks
           [] OTHER -> verify_elt_results
    ELSE CASE t = "create_etl_table" -> create_etl_table
           [] t = "extract" -> extract_data
           [] t = "transform" -> transform_data
           [] t = "load" -> load_data
           [] OTHER -> verify_etl_data

\* The table a DAG writes.
RefreshTable(rf, dag) == IF dag = "elt" THEN rf.elt_table ELSE rf.etl_table

\* The runs of a DAG that have ended.
RunsOf(dag) == {i \in DOMAIN refresh.log : refresh.log[i].dag = dag}

\* sensors.csv and readings.csv of the full-refresh DAGs.
RefreshReadings ==
    [sensor_id : {1, 3}, temperature : {Null, Some(2000), Some(2501)}, timestamp : {12, 36}]

RefreshFiles ==
    [sensors : Directories, readings : BagsUpTo(RefreshReadings, MaxReadings),
     weather : {EmptyBag}]

InitRefresh ==
    /\ files \in RefreshFiles
    /\ temp_dtype \in TempDtypes(files.readings)
    /\ raw_sensors = EmptyBag
    /\ raw_readings = EmptyBag
    /\ raw_weather = EmptyBag
    /\ win = DayWindow(0)
    /\ out = NoOutput
    /\ summary = EmptyBag
    /\ catalog = NoCatalog
    /\ run = [no |-> 0, ds |-> 0, next_ds |-> 0, state |-> "none"]
    /\ state = [t \in Tasks |-> "none"]
    /\ tries = [t \in Tasks |-> 0]
    /\ result = [t \in Tasks |-> "none"]
    /\ emitted = EmptyBag
    /\ branch = "none"
    /\ env_budget = 0
    /\ LibIdle

\* A manual trigger of one of the two DAGs (schedule_interval=None).
StartRefreshRun ==
    /\ refresh.dag = "none"
    /\ \E dag \in {"elt", "etl"} :
          /\ Cardinality(RunsOf(dag)) < MaxRuns
          /\ refresh' = [refresh EXCEPT !.dag = dag, !.done = {}, !.failed = FALSE,
                                        !.xcom = NoRefresh.xcom]
    /\ UNCHANGED <<aggVars, dagVars, pipeline, call, pair>>

\* A task of the run whose upstream tasks all succeeded; a task that raises
\* raises again when retried, and fails the run.
RunRefreshTask ==
    /\ refresh.dag # "none"
    /\ ~refresh.failed
    /\ \E t \in RefreshTasks(refresh.dag) \ refresh.done :
          /\ RefreshUpstream(refresh.dag, t) \subseteq refresh.done
          /\ LET o == RefreshExecute(refresh.dag, t)
             IN refresh' = IF o.raised THEN [refresh EXCEPT !.failed = TRUE]
                           ELSE [o.rf EXCEPT !.done = @ \cup {t}]
    /\ UNCHANGED <<aggVars, dagVars, pipeline, call, pair>>

\* The run ends: the table as the run leaves it is recorded.
FinishRefreshRun ==
    /\ refresh.dag # "none"
    /\ refresh.failed \/ refresh.done = RefreshTasks(refresh.dag)
    /\ refresh' = [refresh EXCEPT
                      !.dag = "none",
                      !.log = Append(@, [dag |-> refresh.dag,
                                         failed |-> refresh.failed,
                                         table |-> RefreshTable(refresh, refresh.dag)])]
    /\ UNCHANGED <<aggVars, dagVars, pipeline, call, pair>>

NextRefresh == StartRefreshRun \/ RunRefreshTask \/ FinishRefreshRun

SpecRefresh == InitRefresh /\ [][NextRefresh]_vars

\* C12: two full-refresh runs of the same DAG over the same sensors.csv and
\* readings.csv leave the summary table with the same rows: the table after
\* the second run is the table after the first, no row is there twice.
C12_FullRefreshIdempotent ==
    \A i, j \in DOMAIN refresh.log :
        (i < j /\ refresh.log[i].dag = refresh.log[j].dag)
        => refresh.log[j].table = refresh.log[i].table

\* C12 witness: the ELT DAG and the pandas ETL DAG have each run twice and
\* each left a table with rows.
C12_Witness ==
    \A dag \in {"elt", "etl"} :
        \E i, j \in RunsOf(dag) :
            /\ i < j
            /\ refresh.log[j].table # Null
            /\ Val(refresh.log[j].table) # EmptyBag

----------------------------------------------------------------------------
(* A third input family, for the join with the weather: a window of two    *)
(* days, observations that differ from key to key, missing and repeated    *)
(* observations.                                                           *)

JoinReadings == [sensor_id : SensorIds, temperature : {Some(2000), Some(2501)},
                 timestamp : {36, 60}]

JoinWeatherRows ==
    {[date |-> 1, location |-> "Loc1", condition |-> Some("Sunny"), avg_temp |-> Some(2400)],
     [date |-> 2, location |-> "Loc1", condition |-> Some("Cloudy"), avg_temp |-> Some(1500)],
     [date |-> 1, location |-> "Loc2", condition |-> Some("Rainy"), avg_temp |-> Some(1800)]}

InitJoin ==
    /\ raw_sensors \in Directories
    /\ raw_readings \in BagsUpTo(JoinReadings, MaxReadings)
    /\ raw_weather \in BagsUpTo(JoinWeatherRows, MaxWeatherRows)
    /\ temp_dtype \in TempDtypes(raw_readings)
    /\ win = [start |-> 24, end |-> 72]
    /\ out = NoOutput
    /\ DagIdle
    /\ LibIdle

SpecJoin == InitJoin /\ [][ApplyIncremental]_vars

\* The (location, date) groups of the readings of known sensors in the window.
C13_Groups ==
    {<<s.location, r.timestamp \div 24>> :
        <<r, s>> \in {p \in BagToSet(raw_readings) \X BagToSet(raw_sensors) :
                        /\ p[1].sensor_id = p[2].sensor_id
                        /\ win.start <= p[1].timestamp
                        /\ p[1].timestamp < win.end}}

\* The observations of raw_weather for the key k, copies counted.
C13_Observations(k) ==
    LET M == {x \in BagToSet(raw_weather) : x.location = k[1] /\ x.date = k[2]}
    IN [rows |-> M, count |-> SumF([x \in M |-> raw_weather[x]], M)]

\* raw_weather holds at most one observation per (location, date).
C13_WeatherKeyed ==
    \A x \in BagToSet(raw_weather) : C13_Observations(<<x.location, x.date>>).count = 1

----------------------------------------------------------------------------
(* The incremental DAG run with template parameters of any order: the run  *)
(* is given ds and next_ds, its window is [ds 00:00, next_ds 00:00), over  *)
(* a fresh database or over one an earlier run of day 1 has written.       *)

InitBadWindow ==
    /\ files \in FaultFiles
    /\ env_budget = 0
    /\ raw_sensors = EmptyBag
    /\ raw_readings = EmptyBag
    /\ raw_weather = EmptyBag
    /\ temp_dtype = "float64"
    /\ out = NoOutput
    /\ \E a, b \in RunDays :
          /\ run = [no |-> 1, ds |-> a, next_ds |-> b, state |-> "running"]
          /\ win = [start |-> 24 * a, end |-> 24 * b]
    /\ \/ summary = EmptyBag /\ catalog = NoCatalog
       \/ /\ summary \in IncrementalSelect(files.readings, files.sensors, files.weather,
                                            DayWindow(1))
          /\ catalog = [table |-> TRUE, partitions |-> {1}, index |-> FALSE]
    /\ state = [t \in Tasks |-> "none"]
    /\ tries = [t \in Tasks |-> 0]
    /\ result = [t \in Tasks |-> "none"]
    /\ emitted = EmptyBag
    /\ branch = "none"
    /\ LibIdle

NextBadWindow == RunTask \/ FinishRun

SpecBadWindow == InitBadWindow /\ [][NextBadWindow]_vars

\* C14: a run whose window does not satisfy start < end fails before any
\* aggregation: transform_in_sql does not succeed, no row is emitted, and
\* validate_data, log_metrics_task and branching_task are never attempted.
C14_BadWindowFails ==
    ~(win.start < win.end) =>
        /\ result["transform_in_sql"] # "ok"
        /\ emitted = EmptyBag
        /\ \A t \in {"validate_data", "log_metrics_task", "branching_task"} : tries[t] = 0

----------------------------------------------------------------------------
(* The pandas ETL library (ETL-Pandas): class SensorETLPipeline.           *)
(* A data frame attribute of the object is modelled by whether it is set;  *)
(* a processing_log entry by the message it carries, without its time      *)
(* stamp; an output file by its kind.  The inputs of a run are the         *)
(* configuration's export formats, what reading each source does, whether  *)
(* a parquet engine can be imported, and the first pandas or file-system   *)
(* call that raises on this input.                                         *)

\* The staging tables and the transform output before any use.
AggIdle ==
    /\ raw_sensors = EmptyBag
    /\ raw_readings = EmptyBag
    /\ raw_weather = EmptyBag
    /\ temp_dtype = "float64"
    /\ win = DayWindow(0)
    /\ out = NoOutput

ExportFormats == {"csv", "excel", "json", "parquet"}
SourceOutcomes == {"loaded", "missing", "error"}
PipelineFaults == {"none", "transform_data", "create_aggregations", "mkdir",
                   "csv", "excel", "json", "parquet", "processing_log"}

\* The order in which run_pipeline calls the stages.
StageOrder == <<"extract_data", "transform_data", "create_aggregations", "load_data">>

\* __init__: the configuration is loaded, no data, an empty processing log.
SensorETLPipeline(export_formats, csv, excel, parquet_engine, fault) ==
    [pc |-> "constructed",
     export_formats |-> export_formats,
     sources |-> [csv |-> csv, excel |-> excel],
     parquet_engine |-> parquet_engine,
     fault |-> fault,
     raw_data |-> FALSE,
     processed_data |-> FALSE,
     aggregations |-> FALSE,
     processing_log |-> <<>>,
     written |-> {},
     called |-> <<>>,
     completed |-> <<>>,
     returned |-> Null,
     raised |-> FALSE]

log_step(p, message) == [p EXCEPT !.processing_log = Append(@, message)]

\* How a method ends: with the object as it left it, returning or raising.
Returns(p) == [obj |-> p, raised |-> FALSE]
Raises(p) == [obj |-> p, raised |-> TRUE]

\* Each source is read inside its own try/except, which only logs; the stage
\* raises ValueError when no frame was read at all.
pipeline_extract_data(p) ==
    LET p1 == log_step(p, "Starting data extraction")
        p2 == CASE p.sources.csv = "loaded" -> log_step(p1, "CSV loaded")
                [] p.sources.csv = "missing" -> log_step(p1, "CSV file not found")
                [] OTHER -> log_step(p1, "Error loading CSV")
        p3 == CASE p.sources.excel = "loaded" -> log_step(p2, "Excel loaded")
                [] p.sources.excel = "missing" -> p2
                [] OTHER -> log_step(p2, "Error loading Excel")
        data_frames == {src \in {"csv", "excel"} : p.sources[src] = "loaded"}
    IN IF data_frames # {}
       THEN Returns(log_step([p3 EXCEPT !.raw_data = TRUE], "Combined dataset"))
       ELSE Raises(p3)

\* Mutant: transform_data without the check of raw_data.
pipeline_transform_data_Unchecked(p) ==
    LET p1 == log_step(p, "Starting data transformation")
    IN IF p.fault = "transform_data" THEN Raises(p1)
       ELSE Returns(log_step([p1 EXCEPT !.processed_data = TRUE],
                             "Transformation completed"))

pipeline_transform_data(p) ==
    LET p1 == log_step(p, "Starting data transformation")
    IN IF ~p.raw_data THEN Raises(p1)
       ELSE IF p.fault = "transform_data" THEN Raises(p1)
       ELSE Returns(log_step([p1 EXCEPT !.processed_data = TRUE],
                             "Transformation completed"))

pipeline_create_aggregations(p) ==
    IF ~p.processed_data
    THEN Returns(log_step(p, "No processed data available for aggregation"))
    ELSE LET p1 == log_step(p, "Creating data aggregations")
         IN IF p.fault = "create_aggregations" THEN Raises(p1)
            ELSE Returns([p1 EXCEPT !.aggregations = TRUE])

\* One export of load_data: skipped unless configured; the call that writes
\* the file may raise.  o is the outcome of what load_data did before it.
Export(o, format, file, message) ==
    IF o.raised \/ format \notin o.obj.export_formats THEN o
    ELSE IF o.obj.fault = format THEN Raises(o.obj)
    ELSE Returns(log_step([o.obj EXCEPT !.written = @ \cup {file}], message))

\* The parquet export catches ImportError (no engine installed) and logs it.
ExportParquet(o) ==
    IF o.raised \/ "parquet" \notin o.obj.export_formats THEN o
    ELSE IF ~o.obj.parquet_engine
    THEN Returns(log_step(o.obj, "Parquet export requires pyarrow"))
    ELSE Export(o, "parquet", "processed_sensor_data.parquet", "Parquet exported")

\* The processing log is written whatever the export formats are.
ExportLog(o) ==
    IF o.raised THEN o
    ELSE IF o.obj.fault = "processing_log" THEN Raises(o.obj)
    ELSE Returns(log_step([o.obj EXCEPT !.written = @ \cup {"processing_log.txt"}],
                          "Processing log saved"))

pipeline_load_data(p) ==
    IF ~p.processed_data THEN Raises(p)
    ELSE LET p1 == log_step(p, "Starting data loading")
             o0 == IF p.fault = "mkdir" THEN Raises(p1) ELSE Returns(p1)
             o1 == Export(o0, "csv", "processed_sensor_data.csv", "CSV exported")
             o2 == Export(o1, "excel", "sensor_analysis.xlsx", "Excel exported")
             o3 == Export(o2, "json", "processed_sensor_data.json", "JSON exported")
         IN ExportLog(ExportParquet(o3))

Stage(name, p) ==
    CASE name = "extract_data" -> pipeline_extract_data(p)
      [] name = "transform_data" -> pipeline_transform_data(p)
      [] name = "create_aggregations" -> pipeline_create_aggregations(p)
      [] name = "load_data" -> pipeline_load_data(p)

\* What follows the stage at position i of run_pipeline.
AfterStage(i) == IF i < Len(StageOrder) THEN StageOrder[i + 1] ELSE "completed"

\* Mutant: the handler swallows the exception and returns False.
run_pipeline_except_ReturnFalse(p) ==
    [log_step(p, "ETL Pipeline failed") EXCEPT !.pc = "returned", !.returned = Some(FALSE)]

\* The handler of run_pipeline: except Exception, log the failure, re-raise.
run_pipeline_except(p) ==
    [log_step(p, "ETL Pipeline failed") EXCEPT !.pc = "raised", !.raised = TRUE]

InitPipeline ==
    /\ pipeline \in {SensorETLPipeline(f, c, e, q, x) :
                        f \in SUBSET ExportFormats, c \in SourceOutcomes,
                        e \in SourceOutcomes, q \in BOOLEAN, x \in PipelineFaults}
    /\ AggIdle
    /\ DagIdle
    /\ refresh = NoRefresh
    /\ call = NoCall
    /\ pair = NoPair

\* run_pipeline is called: its first statement logs the start.
RunPipelineBegin ==
    /\ pipeline.pc = "constructed"
    /\ pipeline' = [log_step(pipeline, "Starting ETL Pipeline") EXCEPT
                        !.pc = StageOrder[1]]
    /\ UNCHANGED <<aggVars, dagVars, refresh, call, pair>>

\* run_pipeline calls its next stage; a stage that raises lands in the handler.
RunPipelineStage ==
    /\ \E i \in 1 .. Len(StageOrder) :
          /\ pipeline.pc = StageOrder[i]
          /\ LET o == Stage(StageOrder[i],
                            [pipeline EXCEPT !.called = Append(@, StageOrder[i])])
             IN pipeline' = IF o.raised THEN run_pipeline_except(o.obj)
                            ELSE [o.obj EXCEPT !.completed = Append(@, StageOrder[i]),
                                               !.pc = AfterStage(i)]
    /\ UNCHANGED <<aggVars, dagVars, refresh, call, pair>>

\* After load_data: three log entries, then return True.  (The entries read
\* processed_data, which the completed transform_data has set.)
RunPipelineReturn ==
    /\ pipeline.pc = "completed"
    /\ pipeline' = [log_step(log_step(log_step(pipeline,
                        "ETL Pipeline completed successfully"),
                        "Final dataset"), "Features created")
                    EXCEPT !.pc = "returned", !.returned = Some(TRUE)]
    /\ UNCHANGED <<aggVars, dagVars, refresh, call, pair>>

NextPipeline == RunPipelineBegin \/ RunPipelineStage \/ RunPipelineReturn

SpecPipeline == InitPipeline /\ [][NextPipeline]_vars

\* The files a completed load_data has written for a configuration.
C15_Outputs(p) ==
    {"processing_log.txt"}
    \cup (IF "csv" \in p.export_formats THEN {"processed_sensor_data.csv"} ELSE {})
    \cup (IF "excel" \in p.export_formats THEN {"sensor_analysis.xlsx"} ELSE {})
    \cup (IF "json" \in p.export_formats THEN {"processed_sensor_data.json"} ELSE {})
    \cup (IF "parquet" \in p.export_formats /\ p.parquet_engine
          THEN {"processed_sensor_data.parquet"} ELSE {})

C15_Prefix(s, t) == Len(s) <= Len(t) /\ s = SubSeq(t, 1, Len(s))

\* C15: run_pipeline returns True only after extract_data, transform_data,
\* create_aggregations and load_data have each completed, in that order, and
\* then load_data has written its output files (one per configured export
\* format, and the processing log); when a stage raises, no later stage is
\* called, the last entry of the processing log is the failure, the exception
\* leaves run_pipeline, and nothing is returned: the only value run_pipeline
\* ever returns is True.
C15_RunPipeline ==
    /\ C15_Prefix(pipeline.completed, pipeline.called)
    /\ C15_Prefix(pipeline.called, <<"extract_data", "transform_data",
                                     "create_aggregations", "load_data">>)
    /\ pipeline.returned \in {Null, Some(TRUE)}
    /\ pipeline.returned = Some(TRUE) =>
          /\ pipeline.completed = <<"extract_data", "transform_data",
                                    "create_aggregations", "load_data">>
          /\ pipeline.written = C15_Outputs(pipeline)
          /\ ~pipeline.raised
    /\ pipeline.raised =>
          /\ pipeline.returned = Null
          /\ Len(pipeline.called) = Len(pipeline.completed) + 1
          /\ pipeline.processing_log # <<>>
          /\ pipeline.processing_log[Len(pipeline.processing_log)] = "ETL Pipeline failed"
    /\ pipeline.pc \in {"returned", "raised"} => (pipeline.returned # Null) # pipeline.raised

\* C15 as stated: whenever run_pipeline has returned True, a file holding the
\* processed data has been written.  (It fails for a configuration without
\* export formats, or with parquet alone and no parquet engine installed.)
C15_ProcessedFileWritten ==
    pipeline.returned = Some(TRUE) =>
        \E file \in pipeline.written : file # "processing_log.txt"

\* create_aggregations raised after two completed stages: load_data was not
\* called, nothing was written, the failure is logged.
C15_Witness ==
    /\ pipeline.raised
    /\ pipeline.completed = <<"extract_data", "transform_data">>
    /\ pipeline.called = <<"extract_data", "transform_data", "create_aggregations">>
    /\ pipeline.written = {}

----------------------------------------------------------------------------
(* ETL-Pandas/utils/sensor_utils: validate_sensor_data, detect_anomalies.  *)
(* A frame is its number of rows and its columns, each a sequence of       *)
(* nullable values in hundredths (NaN is NULL).  A percentage is the exact *)
(* rational <<numerator, denominator>>, NaN is NULL again.                 *)

MaxRows == 3

\* The default sensor_ranges, in hundredths.
DefaultSensorRanges ==
    [temperature_celsius |-> <<-5000, 6000>>,
     humidity_percent |-> <<0, 10000>>,
     pressure_hpa |-> <<90000, 110000>>,
     air_quality_aqi |-> <<0, 50000>>]

Frame(n, columns) == [rows |-> n, columns |-> columns]

\* df[(df[column] >= min_val) & (df[column] <= max_val)][column].count():
\* a comparison with NaN is False, count() skips NaN.
ValidRecords(values, min_val, max_val) ==
    Cardinality({i \in DOMAIN values :
                    /\ values[i] # Null
                    /\ Val(values[i]) >= min_val
                    /\ Val(values[i]) <= max_val})

\* (valid_records / total_records) * 100 on a numpy integer: 0 / 0 is NaN.
ValidityPercentage(valid_records, total_records) ==
    IF total_records = 0 THEN Null ELSE Some(<<valid_records * 100, total_records>>)

validate_sensor_data(df, sensor_ranges) ==
    [column \in DOMAIN sensor_ranges \cap DOMAIN df.columns |->
        LET total_records == df.rows
            valid_records == ValidRecords(df.columns[column],
                                          sensor_ranges[column][1],
                                          sensor_ranges[column][2])
        IN [total_records |-> total_records,
            valid_records |-> valid_records,
            invalid_records |-> total_records - valid_records,
            validity_percentage |-> ValidityPercentage(valid_records, total_records),
            range |-> sensor_ranges[column]]]

\* The values of a column that are not NaN, in ascending order.
RECURSIVE Ascending(_)
Ascending(s) ==
    IF s = <<>> THEN <<>>
    ELSE LET m == Min({s[i] : i \in DOMAIN s})
             i0 == CHOOSE i \in DOMAIN s : s[i] = m
         IN <<m>> \o Ascending([j \in 1 .. Len(s) - 1 |-> IF j < i0 THEN s[j] ELSE s[j + 1]])

NotNaN(values) ==
    LET kept == SelectSeq(values, LAMBDA v : v # Null)
    IN [i \in DOMAIN kept |-> Val(kept[i])]

\* Series.quantile(k / 4), linear interpolation, times 4; NaN for no value.
Quantile4(values, k) ==
    LET sorted == Ascending(NotNaN(values))
        pos4 == k * (Len(sorted) - 1)
        lo == pos4 \div 4
        r == pos4 % 4
    IN IF sorted = <<>> THEN Null
       ELSE Some(sorted[lo + 1] * (4 - r) + (IF r > 0 THEN r * sorted[lo + 2] ELSE 0))

\* method 'iqr': outside [Q1 - threshold * IQR, Q3 + threshold * IQR]; the
\* threshold is the rational t[1] / t[2].  A comparison with NaN is False.
IqrMask(values, t) ==
    LET Q1 == Quantile4(values, 1)
        Q3 == Quantile4(values, 3)
    IN [i \in DOMAIN values |->
          /\ values[i] # Null
          /\ Q1 # Null
          /\ LET IQR == Val(Q3) - Val(Q1)
                 x == 4 * t[2] * Val(values[i])
             IN \/ x < t[2] * Val(Q1) - t[1] * IQR
                \/ x > t[2] * Val(Q3) + t[1] * IQR]

\* method 'zscore': |x - mean| / std > threshold with the sample standard
\* deviation (ddof = 1); fewer than two values or std = 0 give NaN, which
\* compares False.  Both sides are squared and scaled by n^2 (n - 1) t[2]^2.
ZscoreMask(values, t) ==
    LET xs == NotNaN(values)
        n == Len(xs)
        S == SumF(xs, DOMAIN xs)
        SS == SumF([i \in DOMAIN xs |-> (n * xs[i] - S) * (n * xs[i] - S)], DOMAIN xs)
    IN [i \in DOMAIN values |->
          /\ values[i] # Null
          /\ n >= 2
          /\ SS > 0
          /\ LET d == n * Val(values[i]) - S
             IN d * d * (n - 1) * t[2] * t[2] > t[1] * t[1] * SS]

ValueError == [raised |-> TRUE, error |-> "ValueError"]
Returned(value) == [raised |-> FALSE, value |-> value]

detect_anomalies(df, column, method, threshold) ==
    IF column \notin DOMAIN df.columns THEN ValueError
    ELSE IF method = "iqr" THEN Returned(IqrMask(df.columns[column], threshold))
    ELSE IF method = "zscore" THEN Returned(ZscoreMask(df.columns[column], threshold))
    ELSE ValueError

\* The methods the docstring of detect_anomalies documents.
DocumentedMethods == {"iqr", "zscore", "isolation"}

\* The sequences over S of length at most n.
RECURSIVE SeqsUpTo(_, _)
SeqsUpTo(S, n) ==
    IF n = 0 THEN {<<>>}
    ELSE LET shorter == SeqsUpTo(S, n - 1)
         IN shorter \cup {Append(s, v) : s \in {q \in shorter : Len(q) = n - 1}, v \in S}

\* Frames for validate_sensor_data: temperatures at and around both ends of
\* the range and missing, with or without a humidity column.
ValidateTemps == {Null, Some(-5001), Some(-5000), Some(6000), Some(6001)}
ValidateHumidities == {Null, Some(5000)}
ValidateFrames ==
    LET rowsets == SeqsUpTo(ValidateTemps \X ValidateHumidities, MaxRows)
        temps(rs) == [i \in DOMAIN rs |-> rs[i][1]]
        hums(rs) == [i \in DOMAIN rs |-> rs[i][2]]
    IN {Frame(Len(rs), [temperature_celsius |-> temps(rs), humidity_percent |-> hums(rs)])
            : rs \in rowsets}
       \cup {Frame(Len(rs), [temperature_celsius |-> temps(rs)]) : rs \in rowsets}
       \cup {Frame(Len(rs), [humidity_percent |-> hums(rs)]) : rs \in rowsets}

\* Frames for detect_anomalies: the temperatures of the test, in whole degrees
\* (both masks are invariant under the unit), and a missing one.
AnomalyTemps == {Null, Some(20), Some(25), Some(100)}
AnomalyFrames ==
    {Frame(Len(vs), [temperature_celsius |-> vs]) : vs \in SeqsUpTo(AnomalyTemps, MaxRows)}
AnomalyColumns == {"temperature_celsius", "humidity_percent"}
AnomalyMethods == {"iqr", "zscore", "isolation", "kmeans"}
AnomalyThresholds == {<<3, 2>>, <<1, 2>>}

UtilsIdle ==
    /\ AggIdle
    /\ DagIdle
    /\ refresh = NoRefresh
    /\ pipeline = NoPipeline
    /\ pair = NoPair

InitValidate ==
    /\ call \in {[fn |-> "validate_sensor_data", pc |-> "called", df |-> df,
                  sensor_ranges |-> DefaultSensorRanges] : df \in ValidateFrames}
    /\ UtilsIdle

ValidateSensorData ==
    /\ call.fn = "validate_sensor_data"
    /\ call.pc = "called"
    /\ call' = [fn |-> call.fn, pc |-> "returned", df |-> call.df,
                sensor_ranges |-> call.sensor_ranges,
                result |-> validate_sensor_data(call.df, call.sensor_ranges)]
    /\ UNCHANGED <<aggVars, dagVars, refresh, pipeline, pair>>

SpecValidate == InitValidate /\ [][ValidateSensorData]_vars

InitAnomalies ==
    /\ call \in {[fn |-> "detect_anomalies", pc |-> "called", df |-> df, column |-> c,
                  method |-> m, threshold |-> t]
                    : df \in AnomalyFrames, c \in AnomalyColumns, m \in AnomalyMethods,
                      t \in AnomalyThresholds}
    /\ UtilsIdle

DetectAnomalies ==
    /\ call.fn = "detect_anomalies"
    /\ call.pc = "called"
    /\ LET o == detect_anomalies(call.df, call.column, call.method, call.threshold)
       IN call' = [fn |-> call.fn, pc |-> IF o.raised THEN "raised" ELSE "returned",
                   df |-> call.df, column |-> call.column, method |-> call.method,
                   threshold |-> call.threshold, result |-> o]
    /\ UNCHANGED <<aggVars, dagVars, refresh, pipeline, pair>>

SpecAnomalies == InitAnomalies /\ [][DetectAnomalies]_vars

C16_InRange(v, range) == v # Null /\ Val(v) >= range[1] /\ Val(v) <= range[2]

\* C16: for every frame, validate_sensor_data reports for each configured
\* column that is present: total_records = the number of rows, valid_records
\* + invalid_records = total_records, validity_percentage = 100 exactly when
\* every row's value lies in [min, max], and validity_percentage < 100 when a
\* value is outside the range or missing.
C16_ValidityReport ==
    (call.fn = "validate_sensor_data" /\ call.pc = "returned") =>
        /\ DOMAIN call.result = DOMAIN call.sensor_ranges \cap DOMAIN call.df.columns
        /\ \A column \in DOMAIN call.result :
              LET r == call.result[column]
                  values == call.df.columns[column]
                  all_in == \A i \in DOMAIN values : C16_InRange(values[i], r.range)
                  is100 == /\ r.validity_percentage # Null
                           /\ Val(r.validity_percentage)[1]
                                = 100 * Val(r.validity_percentage)[2]
                  below100 == /\ r.validity_percentage # Null
                              /\ Val(r.validity_percentage)[1]
                                   < 100 * Val(r.validity_percentage)[2]
              IN /\ r.total_records = call.df.rows
                 /\ r.valid_records + r.invalid_records = r.total_records
                 /\ is100 <=> all_in
                 /\ ~all_in => below100

\* C17: for each documented method ('iqr', 'zscore', 'isolation')
\* detect_anomalies returns a boolean mask with exactly one entry per input
\* row; it raises ValueError only when the column is absent or the method is
\* not a documented one.
C17_MaskOrValueError ==
    (call.fn = "detect_anomalies" /\ call.pc # "called") =>
        LET present == call.column \in DOMAIN call.df.columns
            documented == call.method \in DocumentedMethods
        IN /\ (present /\ documented) =>
                 /\ ~call.result.raised
                 /\ DOMAIN call.result.value = 1 .. call.df.rows
                 /\ \A i \in 1 .. call.df.rows : call.result.value[i] \in BOOLEAN
           /\ call.result.raised => (~present \/ ~documented)

----------------------------------------------------------------------------
(* ETL-Pandas/scripts/generate_sample_data: generate_sensor_data.          *)
(* The loop appends one record per sensor and hour; the state keeps the    *)
(* position of the loop, the number of records appended and the record     *)
(* appended last.  Values are in hundredths; a random draw is a choice     *)
(* from a few values of its distribution.  The columns air_quality_aqi and *)
(* status, which draw their own numbers, are left out.                     *)

MaxGenDays == 1
MaxSensors == 1

\* 8 * sin(j * pi / 12) for j = 0 .. 6, in hundredths.
Sin8 == <<0, 207, 400, 566, 693, 773, 800>>

\* base_temp = 25 + 8 * sin((hour - 6) * pi / 12)
BaseTemp(hour) ==
    LET k == (hour - 6) % 24
    IN 2500 + (CASE k <= 6 -> Sin8[k + 1]
                 [] k <= 12 -> Sin8[12 - k + 1]
                 [] k <= 18 -> 0 - Sin8[k - 12 + 1]
                 [] OTHER -> 0 - Sin8[24 - k + 1])

\* round(x, 1) of x = v / 200: the nearest tenth, a tie to the even one; the
\* result is in hundredths.
RoundTenth(v) ==
    LET q == v \div 20
        r == v % 20
    IN 10 * (IF r < 10 THEN q
             ELSE IF r > 10 THEN q + 1
             ELSE IF q % 2 = 0 THEN q ELSE q + 1)

\* np.random.normal(0, 2), (0, 5) and (0, 10); random.random() < p.
TempNoise == {-400, 400}
HumidityNoise == {-1000, 1000}
PressureNoise == {-3000, 3000}

\* One iteration of the loop body for the hour of the date: the record that
\* data.append receives, given the draws.
SensorRecord(sensor_id, timestamp, nt, nh, np, missing_t, outlier_t, missing_h) ==
    LET hour == timestamp % 24
        temperature == BaseTemp(hour) + nt
        \* humidity = 85 - (temperature - 20) * 1.5 + noise, in 1/200
        humidity == 17000 - 3 * (temperature - 2000) + 2 * nh
        clipped == Max({4000, Min({20000, humidity})})
        t1 == IF missing_t THEN Null ELSE Some(temperature)
        t2 == IF outlier_t /\ t1 # Null THEN Some(Val(t1) * 3) ELSE t1
    IN [timestamp |-> timestamp,
        sensor_id |-> sensor_id,
        temperature_celsius |-> t2,
        humidity_percent |-> IF missing_h THEN Null ELSE Some(RoundTenth(clipped)),
        pressure_hpa |-> Some(101325 + np)]

InitGenerate ==
    /\ call \in {[fn |-> "generate_sensor_data", pc |-> "loop", start_date |-> d,
                  days |-> n, sensors_count |-> c, sensor_id |-> 1, x |-> 0,
                  rows |-> 0, record |-> Null]
                    : d \in 0 .. 1, n \in 0 .. MaxGenDays, c \in 0 .. MaxSensors}
    /\ UtilsIdle

\* for sensor_id in range(1, sensors_count + 1): for date in dates: append.
GenerateRecord ==
    /\ call.fn = "generate_sensor_data"
    /\ call.pc = "loop"
    /\ call.sensor_id <= call.sensors_count
    /\ call.x < call.days * 24
    /\ \E nt \in TempNoise, nh \in HumidityNoise, np \in PressureNoise,
          missing_t \in BOOLEAN, outlier_t \in BOOLEAN, missing_h \in BOOLEAN :
          call' = [call EXCEPT
                     !.record = Some(SensorRecord(call.sensor_id,
                                                  24 * call.start_date + call.x,
                                                  nt, nh, np, missing_t, outlier_t,
                                                  missing_h)),
                     !.rows = @ + 1,
                     !.x = IF call.x + 1 < call.days * 24 THEN call.x + 1 ELSE 0,
                     !.sensor_id = IF call.x + 1 < call.days * 24 THEN @ ELSE @ + 1]
    /\ UNCHANGED <<aggVars, dagVars, refresh, pipeline, pair>>

\* return pd.DataFrame(data)
GenerateReturn ==
    /\ call.fn = "generate_sensor_data"
    /\ call.pc = "loop"
    /\ call.sensor_id > call.sensors_count \/ call.days = 0
    /\ call' = [call EXCEPT !.pc = "returned"]
    /\ UNCHANGED <<aggVars, dagVars, refresh, pipeline, pair>>

NextGenerate == GenerateRecord \/ GenerateReturn

SpecGenerate == InitGenerate /\ [][NextGenerate]_vars

C18_Within(v, lo, hi) == v # Null /\ Val(v) >= lo /\ Val(v) <= hi

\* C18: every record generate_sensor_data produces has temperature_celsius
\* within [-50, 60], humidity_percent within [0, 100] and pressure_hpa within
\* [900, 1100], a missing value not being within a range, whatever the draws.
C18_RecordsInRange ==
    (call.fn = "generate_sensor_data" /\ call.record # Null) =>
        /\ C18_Within(Val(call.record).temperature_celsius, -5000, 6000)
        /\ C18_Within(Val(call.record).humidity_percent, 0, 10000)
        /\ C18_Within(Val(call.record).pressure_hpa, 90000, 110000)

----------------------------------------------------------------------------
(* Two runs of the incremental DAG at the same time.  The DAG sets no      *)
(* max_active_runs, so a second run (a manual trigger, a backfill) may be  *)
(* active while the first one is.  Both runs use the same staging tables   *)
(* and the same summary table; each has its own ds, its own task instances *)
(* and its own emitted rows.  The tasks downstream of transform_in_sql     *)
(* write neither the staging tables nor the emitted rows and are left out. *)

PairTasks == Ancestors("transform_in_sql") \cup {"transform_in_sql"}

PairRun(d) == [ds |-> d, next_ds |-> d + 1, done |-> {}, failed |-> FALSE, emitted |-> Null]

PairFiles ==
    [sensors : {DagSensors}, readings : BagsUpTo(DagReadings, MaxReadings),
     weather : DagWeathers]

\* Two running runs with different logical dates, hence disjoint one-day
\* windows and different partitions, on a fresh database.
InitPair ==
    /\ pair \in {[pc |-> "running", runs |-> <<PairRun(d[1]), PairRun(d[2])>>]
                    : d \in {e \in RunDays \X RunDays : e[1] # e[2]}}
    /\ files \in PairFiles
    /\ AggIdle
    /\ summary = EmptyBag
    /\ catalog = NoCatalog
    /\ run = [no |-> 0, ds |-> 0, next_ds |-> 0, state |-> "none"]
    /\ state = [t \in Tasks |-> "none"]
    /\ tries = [t \in Tasks |-> 0]
    /\ result = [t \in Tasks |-> "none"]
    /\ emitted = EmptyBag
    /\ branch = "none"
    /\ env_budget = 0
    /\ refresh = NoRefresh
    /\ pipeline = NoPipeline
    /\ call = NoCall

\* What task t does when it runs for the run r of the pair.
PairExecute(r, t) ==
    IF t = "transform_in_sql"
    THEN transform_in_sql_rendered(r, DayWindow(r.ds), Db)
    ELSE Execute(t)

\* A task instance of either run whose upstream tasks succeeded executes.
RunPairTask ==
    /\ pair.pc = "running"
    /\ \E i \in DOMAIN pair.runs : \E t \in PairTasks :
          LET r == pair.runs[i]
          IN /\ ~r.failed
             /\ t \notin r.done
             /\ Upstream(t) \subseteq r.done
             /\ \E o \in PairExecute(r, t) :
                   /\ pair' = [pair EXCEPT !.runs[i] =
                                  IF o.raised THEN [r EXCEPT !.failed = TRUE]
                                  ELSE [r EXCEPT !.done = @ \cup {t},
                                                 !.emitted = IF t = "transform_in_sql"
                                                             THEN Some(o.db.emitted)
                                                             ELSE @]]
                   /\ raw_sensors' = o.db.raw_sensors
                   /\ raw_readings' = o.db.raw_readings
                   /\ raw_weather' = o.db.raw_weather
                   /\ summary' = o.db.summary
                   /\ catalog' = o.db.catalog
    /\ UNCHANGED <<temp_dtype, win, out, files, run, state, tries, result, emitted, branch,
                   env_budget, refresh, pipeline, call>>

SpecPair == InitPair /\ [][RunPairTask]_vars

\* C19: two runs of the incremental DAG with disjoint windows execute
\* concurrently; under every interleaving of their tasks the rows each run
\* emits are the rows it emits when the runs execute one after the other,
\* which are the rows of its own window of the input files.
C19_ConcurrentAsSequential ==
    pair.pc = "running" =>
        \A i \in DOMAIN pair.runs :
            pair.runs[i].emitted # Null =>
                Val(pair.runs[i].emitted)
                    \in IncrementalSelect(files.readings, files.sensors, files.weather,
                                          DayWindow(pair.runs[i].ds))

----------------------------------------------------------------------------
(* Re-delivery: a load_readings task instance that succeeded is cleared    *)
(* and executes again before transform_in_sql of the same run.             *)

MaxDeliveries == 2

\* A run of the incremental DAG that has just been created.
InitRedelivery ==
    /\ files \in DagFiles
    /\ env_budget = 0
    /\ raw_sensors = EmptyBag
    /\ raw_readings = EmptyBag
    /\ raw_weather = EmptyBag
    /\ temp_dtype = "float64"
    /\ out = NoOutput
    /\ run = [no |-> 1, ds |-> 1, next_ds |-> 2, state |-> "running"]
    /\ win = DayWindow(1)
    /\ summary = EmptyBag
    /\ catalog = NoCatalog
    /\ state = [t \in Tasks |-> "none"]
    /\ tries = [t \in Tasks |-> 0]
    /\ result = [t \in Tasks |-> "none"]
    /\ emitted = EmptyBag
    /\ branch = "none"
    /\ LibIdle

\* load_readings executes again after it succeeded: to_sql(if_exists='append')
\* appends the rows of readings.csv once more.
RerunLoadReadings ==
    /\ run.state = "running"
    /\ state["load_readings"] = "success"
    /\ state["transform_in_sql"] = "none"
    /\ tries["load_readings"] < MaxDeliveries
    /\ \E o \in Execute("load_readings") :
          /\ ~o.raised
          /\ raw_readings' = o.db.raw_readings
          /\ tries' = [tries EXCEPT !["load_readings"] = @ + 1]
    /\ UNCHANGED <<raw_sensors, raw_weather, temp_dtype, win, out, files, summary, catalog,
                   run, state, result, emitted, branch, env_budget>>
    /\ UNCHANGED libVars

NextRedelivery == RunTask \/ RerunLoadReadings \/ FinishRun

SpecRedelivery == InitRedelivery /\ [][NextRedelivery]_vars

C20_Statistics(rows) ==
    {[location |-> row.location, date |-> row.date, reading_count |-> row.reading_count,
      avg_temp |-> row.avg_temp, min_temp |-> row.min_temp, max_temp |-> row.max_temp]
        : row \in BagToSet(rows)}

\* C20: when the readings were loaded into staging more than once before
\* transform_in_sql of a run, the rows the run emits have, for each partition
\* date, the reading_count, avg_temp, min_temp and max_temp of the rows it
\* emits when the readings were loaded once.
C20_RedeliveryTolerated ==
    (run.state = "running" /\ state["transform_in_sql"] = "success") =>
        \E once \in IncrementalSelect(files.readings, raw_sensors, raw_weather, win) :
            C20_Statistics(emitted) = C20_Statistics(once)

----------------------------------------------------------------------------
(* The two full-refresh transforms on the same staged input.               *)

C21_Statistics(rows) ==
    {[location |-> row.location, date |-> row.date, avg_temp |-> row.avg_temp,
      min_temp |-> row.min_temp, max_temp |-> row.max_temp,
      reading_count |-> row.reading_count] : row \in BagToSet(rows)}

\* C21: for every set of sensors and readings the pandas transform_data and
\* the full-refresh SQL transform_in_sql produce the same set of rows
\* (location, date, avg_temp, min_temp, max_temp, reading_count): when the
\* pandas transform has produced its rows, the SQL statement on the same
\* input succeeds and selects the same rows, and when pandas raises, so does
\* the statement.
C21_PandasEqualsSql ==
    out.by = "pandas" =>
        /\ out.ok = ~FullRefreshTypeError(raw_readings, raw_sensors, temp_dtype)
        /\ out.ok => C21_Statistics(out.rows)
                        = C21_Statistics(FullRefreshSelect(raw_readings, raw_sensors))

----------------------------------------------------------------------------
(* The incremental statement over a two-day window whose groups hold       *)
(* several readings, so that a group's average has more than two decimals. *)

MaxRoundReadings == 3

RoundReadings == [sensor_id : {1}, temperature : {Some(2000), Some(2500), Some(2501)},
                  timestamp : {36, 60}]

InitRound ==
    /\ raw_sensors = SetToBag({[sensor_id |-> 1, location |-> "Loc1"]})
    /\ raw_readings \in BagsUpTo(RoundReadings, MaxRoundReadings)
    /\ raw_weather = SetToBag({WeatherRow("Loc1", d) : d \in 1 .. 2})
    /\ temp_dtype = "float64"
    /\ win = [start |-> 24, end |-> 72]
    /\ out = NoOutput
    /\ DagIdle
    /\ LibIdle

SpecRound == InitRound /\ [][ApplyIncremental]_vars

\* C22: every downstream use of a temperature aggregate consumes the value
\* rounded to 2 decimals: moving_avg_3day of an emitted row is the 2-decimal
\* rounding of the mean of the rounded avg_temp of the rows of its window
\* (its own date and the two preceding dates of its location), and
\* quality_flag is ABNORMAL exactly when the rounded max_temp exceeds 25.00.
C22_RoundedBeforeUse ==
    out.by = "incremental" =>
        \A row \in BagToSet(out.rows) :
            LET rows == RowsOf(row.location)
                W == {x \in rows : x.date <= row.date
                         /\ Cardinality({y \in rows : x.date < y.date
                                                       /\ y.date <= row.date}) <= 2}
                m == AvgOfNullable([x \in W |-> IF x.avg_temp = Null THEN Null
                                                ELSE Some(<<Val(x.avg_temp), 1>>)], W)
            IN /\ row.moving_avg_3day = (IF m = Null THEN Null
                                         ELSE Some(RoundHalfAway(Val(m)[1], Val(m)[2])))
               /\ row.quality_flag = "ABNORMAL"
                    <=> (row.max_temp # Null /\ Val(row.max_temp) > 2500)

----------------------------------------------------------------------------
(* A failed validation in the incremental DAG.                             *)

\* C23: when validate_data has failed in a run (its retry included), the
\* rows transform_in_sql inserted in that run are still in the summary
\* table, the run does not end in success (it ends failed), and neither
\* send_alert_task nor no_alert_task has been attempted.
C23_FailedValidation ==
    (run.state # "none" /\ state["validate_data"] = "failed") =>
        /\ emitted \sqsubseteq summary
        /\ \A hook \in {"send_alert_task", "no_alert_task"} :
              tries[hook] = 0 /\ state[hook] \in {"none", "upstream_failed"}
        /\ run.state \in {"running", "failed"}
        /\ (\A t \in Tasks : state[t] \in Terminal) =>
              \A hook \in {"send_alert_task", "no_alert_task"} :
                  state[hook] = "upstream_failed"

\* validate_data failed on the rows of the run itself, and the run has ended.
C23_Witness ==
    /\ run.state = "failed"
    /\ state["validate_data"] = "failed"
    /\ result["validate_data"] = "raised"
    /\ emitted # EmptyBag
    /\ emitted \sqsubseteq summary

----------------------------------------------------------------------------
(* Full-refresh runs over input files that change between the runs.        *)

ReplaceReadings ==
    {EmptyBag,
     SetToBag({[sensor_id |-> 1, temperature |-> Some(2000), timestamp |-> 12]}),
     SetToBag({[sensor_id |-> 1, temperature |-> Some(2501), timestamp |-> 12]}),
     SetToBag({[sensor_id |-> 1, temperature |-> Some(3000), timestamp |-> 36]})}

ReplaceFileSets == [sensors : {DagSensors}, readings : ReplaceReadings, weather : {EmptyBag}]

InitReplace ==
    /\ files \in ReplaceFileSets
    /\ temp_dtype \in TempDtypes(files.readings)
    /\ raw_sensors = EmptyBag
    /\ raw_readings = EmptyBag
    /\ raw_weather = EmptyBag
    /\ win = DayWindow(0)
    /\ out = NoOutput
    /\ summary = EmptyBag
    /\ catalog = NoCatalog
    /\ run = [no |-> 0, ds |-> 0, next_ds |-> 0, state |-> "none"]
    /\ state = [t \in Tasks |-> "none"]
    /\ tries = [t \in Tasks |-> 0]
    /\ result = [t \in Tasks |-> "none"]
    /\ emitted = EmptyBag
    /\ branch = "none"
    /\ env_budget = 0
    /\ LibIdle

\* Between two runs sensors.csv and readings.csv are replaced by new files.
ReplaceInputFiles ==
    /\ refresh.dag = "none"
    /\ files' \in ReplaceFileSets \ {files}
    /\ temp_dtype' \in TempDtypes(files'.readings)
    /\ UNCHANGED <<raw_sensors, raw_readings, raw_weather, win, out, summary, catalog, run,
                   state, tries, result, emitted, branch, env_budget>>
    /\ UNCHANGED libVars

NextReplace == StartRefreshRun \/ RunRefreshTask \/ FinishRefreshRun \/ ReplaceInputFiles

SpecReplace == InitReplace /\ [][NextReplace]_vars

\* The table the last ended run of the DAG left (NULL: no table).
C24_Prior(dag) ==
    IF RunsOf(dag) = {} THEN Null ELSE refresh.log[Max(RunsOf(dag))].table

\* C24: in a full-refresh run the summary table never holds a mixture of the
\* prior run's rows and new rows.  In the pandas ETL DAG create_etl_table
\* destroys the prior table first: from then until load the table is empty,
\* whether the run goes on, fails or stops there, and after load it holds
\* the new rows only.  In the ELT DAG the DROP and the CREATE TABLE AS are
\* one transaction of transform_in_sql: until it commits the table is the
\* prior table, whole, also when the statement fails; afterwards it holds
\* the new rows only.
C24_DropBeforeRecompute ==
    /\ refresh.dag = "etl" =>
          /\ "create_etl_table" \notin refresh.done => refresh.etl_table = C24_Prior("etl")
          /\ ("create_etl_table" \in refresh.done /\ "load" \notin refresh.done)
                => refresh.etl_table = Some(EmptyBag)
          /\ "load" \in refresh.done
                => refresh.etl_table = Some(PandasSummary(files.readings, files.sensors))
    /\ refresh.dag = "elt" =>
          /\ "transform_in_sql" \notin refresh.done => refresh.elt_table = C24_Prior("elt")
          /\ "transform_in_sql" \in refresh.done
                => refresh.elt_table = Some(FullRefreshSelect(files.readings, files.sensors))

\* C24 as stated: when a step after the drop has failed (in the ELT DAG the
\* CREATE TABLE AS that follows the DROP in transform_in_sql, in the pandas
\* ETL DAG a task after create_etl_table), the summary table, if there is
\* one, holds no row, hence none of the prior run.
C24_NoPriorRowsAfterFailure ==
    LET dropped == IF refresh.dag = "elt"
                   THEN {"load_sensors", "load_readings"} \subseteq refresh.done
                   ELSE "create_etl_table" \in refresh.done
        replaced == IF refresh.dag = "elt" THEN "transform_in_sql" \in refresh.done
                    ELSE "load" \in refresh.done
        table == RefreshTable(refresh, refresh.dag)
    IN (refresh.dag # "none" /\ refresh.failed /\ dropped /\ ~replaced)
          => (table = Null \/ Val(table) = EmptyBag)

\* The pandas ETL run failed in transform after create_etl_table had dropped
\* a table with rows; and an ELT run failed in transform_in_sql while the
\* table of the prior run, with rows, is still there.
C24_Witness ==
    /\ refresh.dag = "etl"
    /\ refresh.failed
    /\ refresh.done = {"create_etl_table", "extract"}
    /\ C24_Prior("etl") # Null
    /\ Val(C24_Prior("etl")) # EmptyBag
    /\ refresh.etl_table = Some(EmptyBag)

----------------------------------------------------------------------------
(* The stage methods of SensorETLPipeline called directly, in any order,   *)
(* as the unit tests call them.  call records the last call: the method,   *)
(* the object before it and whether it raised.                             *)

MaxCalls == 3

InitStages ==
    /\ pipeline \in {SensorETLPipeline(f, c, e, q, x) :
                        f \in {{"csv"}, ExportFormats}, c \in SourceOutcomes,
                        e \in SourceOutcomes, q \in BOOLEAN,
                        x \in {"none", "transform_data"}}
    /\ AggIdle
    /\ DagIdle
    /\ refresh = NoRefresh
    /\ call = NoCall
    /\ pair = NoPair

\* pipeline.<stage>() on the constructed object; an exception reaches the
\* caller and the object stays as the method left it.
CallStage ==
    /\ pipeline.pc = "constructed"
    /\ Len(pipeline.called) < MaxCalls
    /\ \E i \in 1 .. Len(StageOrder) :
          LET o == Stage(StageOrder[i], pipeline)
          IN /\ pipeline' = [o.obj EXCEPT
                                !.called = Append(@, StageOrder[i]),
                                !.completed = IF o.raised THEN @ ELSE Append(@, StageOrder[i])]
             /\ call' = [fn |-> "stage", name |-> StageOrder[i], before |-> pipeline,
                         raised |-> o.raised]
    /\ UNCHANGED <<aggVars, dagVars, refresh, pair>>

\* Between two calls the input files are removed: os.path.exists is False
\* for both after that.
RemoveSourceFiles ==
    /\ pipeline.pc = "constructed"
    /\ pipeline.sources # [csv |-> "missing", excel |-> "missing"]
    /\ pipeline' = [pipeline EXCEPT !.sources = [csv |-> "missing", excel |-> "missing"]]
    /\ UNCHANGED <<aggVars, dagVars, refresh, call, pair>>

NextStages == CallStage \/ RemoveSourceFiles

SpecStages == InitStages /\ [][NextStages]_vars

\* The entries a call appended to the processing log.
C25_Logged ==
    {pipeline.processing_log[i] :
        i \in Len(call.before.processing_log) + 1 .. Len(pipeline.processing_log)}

\* C25: transform_data before a successful extract_data raises and leaves
\* processed_data None; load_data before a successful transform_data raises
\* and writes no file; create_aggregations before transform_data returns and
\* creates no aggregations; extract_data raises exactly when no source
\* yielded a frame and then leaves raw_data as it was, while an error reading
\* one source is logged and the frame of the other becomes raw_data.
C25_StagePreconditions ==
    call.fn = "stage" =>
        LET before == call.before
            loaded == {src \in {"csv", "excel"} : before.sources[src] = "loaded"}
            failed == {src \in {"csv", "excel"} : before.sources[src] = "error"}
        IN /\ (call.name = "transform_data" /\ ~before.raw_data) =>
                  /\ call.raised
                  /\ ~pipeline.processed_data
                  /\ pipeline.written = before.written
           /\ (call.name = "load_data" /\ ~before.processed_data) =>
                  /\ call.raised
                  /\ pipeline.written = {}
                  /\ pipeline.processing_log = before.processing_log
           /\ (call.name = "create_aggregations" /\ ~before.processed_data) =>
                  /\ ~call.raised
                  /\ ~pipeline.aggregations
           /\ call.name = "extract_data" =>
                  /\ call.raised <=> loaded = {}
                  /\ call.raised => pipeline.raw_data = before.raw_data
                  /\ ~call.raised => pipeline.raw_data
                  /\ "csv" \in failed => "Error loading CSV" \in C25_Logged
                  /\ "excel" \in failed => "Error loading Excel" \in C25_Logged
           /\ pipeline.processed_data => pipeline.raw_data
           /\ pipeline.written # {} => pipeline.processed_data

\* extract_data failed for want of a source, then transform_data was called
\* and raised, then load_data was called and raised.
C25_Witness ==
    /\ call.fn = "stage"
    /\ pipeline.called = <<"extract_data", "transform_data", "load_data">>
    /\ pipeline.completed = <<>>
    /\ call.raised
    /\ ~pipeline.raw_data
    /\ ~pipeline.processed_data
    /\ pipeline.written = {}

----------------------------------------------------------------------------
(* sensor_utils.flag_sensor_maintenance_periods.  A frame is the sequence  *)
(* of its rows; the index label of a row is its position (the RangeIndex   *)
(* of a frame that was read or built without an index).                    *)

MaxFrameRows == 3
MaxThreshold == 2

MaintenanceRows ==
    [sensor_id : {1, 2}, timestamp : 0 .. MaxFrameRows - 1, temperature_celsius : {20, 21}]

\* Frames in any row order; a sensor has one reading per timestamp.
MaintenanceFrames ==
    {df \in SeqsUpTo(MaintenanceRows, MaxFrameRows) :
        \A i, j \in DOMAIN df :
            (df[i].sensor_id = df[j].sensor_id /\ df[i].timestamp = df[j].timestamp) => i = j}

\* df_copy[df_copy[sensors_col] == sensor_id]: the index labels of a sensor.
SensorData(df, sensor_id) == {i \in DOMAIN df : df[i].sensor_id = sensor_id}

\* The rows of the same sensor before and after row i in sort_values('timestamp').
Earlier(df, i) == {j \in SensorData(df, df[i].sensor_id) : df[j].timestamp < df[i].timestamp}
Later(df, i) == {j \in SensorData(df, df[i].sensor_id) : df[j].timestamp > df[i].timestamp}

Previous(df, i) == CHOOSE j \in Earlier(df, i) : \A k \in Earlier(df, i) : df[k].timestamp <= df[j].timestamp
Following(df, i) == CHOOSE j \in Later(df, i) : \A k \in Later(df, i) : df[k].timestamp >= df[j].timestamp

\* sensor_data[temp_col].diff() == 0: False on the first row of a sensor.
unchanged_mask(df, i) ==
    /\ Earlier(df, i) # {}
    /\ df[i].temperature_celsius - df[Previous(df, i)].temperature_celsius = 0

\* The rows of the group of consecutive unchanged rows that row i is in,
\* counted backwards and forwards from i.
RECURSIVE UnchangedBefore(_, _)
UnchangedBefore(df, i) ==
    IF ~unchanged_mask(df, i) THEN 0 ELSE 1 + UnchangedBefore(df, Previous(df, i))

RECURSIVE UnchangedAfter(_, _)
UnchangedAfter(df, i) ==
    IF Later(df, i) = {} \/ ~unchanged_mask(df, Following(df, i)) THEN 0
    ELSE 1 + UnchangedAfter(df, Following(df, i))

\* len(group) of the unchanged group of row i (0 for a row outside the mask).
UnchangedGroupLen(df, i) ==
    IF ~unchanged_mask(df, i) THEN 0 ELSE UnchangedBefore(df, i) + UnchangedAfter(df, i)

\* Mutant: the row before the unchanged group is part of the group.
flag_sensor_maintenance_periods_WholeRun(df, has_columns, threshold_hours) ==
    [i \in DOMAIN df |->
        [sensor_id |-> df[i].sensor_id, timestamp |-> df[i].timestamp,
         temperature_celsius |-> df[i].temperature_celsius,
         maintenance_flag |->
            \/ has_columns /\ UnchangedGroupLen(df, i) + 1 >= threshold_hours
            \/ /\ has_columns
               /\ Later(df, i) # {}
               /\ UnchangedGroupLen(df, Following(df, i)) + 1 >= threshold_hours
               /\ unchanged_mask(df, Following(df, i))]]

\* The returned frame: the copy with the column maintenance_flag, which stays
\* False when the sensor, temperature or timestamp column is not in the
\* frame under the name given.
flag_sensor_maintenance_periods(df, has_columns, threshold_hours) ==
    [i \in DOMAIN df |->
        [sensor_id |-> df[i].sensor_id, timestamp |-> df[i].timestamp,
         temperature_celsius |-> df[i].temperature_celsius,
         maintenance_flag |-> /\ has_columns
                              /\ unchanged_mask(df, i)
                              /\ UnchangedGroupLen(df, i) >= threshold_hours]]

InitMaintenance ==
    /\ call \in {[fn |-> "flag_sensor_maintenance_periods", pc |-> "called", df |-> df,
                  has_columns |-> c, threshold_hours |-> t]
                    : df \in MaintenanceFrames, c \in BOOLEAN, t \in 1 .. MaxThreshold}
    /\ UtilsIdle

\* The function works on df.copy(): the caller's frame stays as it was.
FlagMaintenance ==
    /\ call.fn = "flag_sensor_maintenance_periods"
    /\ call.pc = "called"
    /\ call' = [fn |-> call.fn, pc |-> "returned", df |-> call.df,
                has_columns |-> call.has_columns, threshold_hours |-> call.threshold_hours,
                result |-> flag_sensor_maintenance_periods(call.df, call.has_columns,
                                                           call.threshold_hours)]
    /\ UNCHANGED <<aggVars, dagVars, refresh, pipeline, pair>>

SpecMaintenance == InitMaintenance /\ [][FlagMaintenance]_vars

\* The sets of rows of one sensor that are consecutive in timestamp order.
C26_Consecutive(df) ==
    {{k \in SensorData(df, df[a].sensor_id) :
         df[a].timestamp <= df[k].timestamp /\ df[k].timestamp <= df[b].timestamp}
        : a \in DOMAIN df, b \in DOMAIN df}

C26_SameTemperature(df, R) ==
    \A j, k \in R : df[j].temperature_celsius = df[k].temperature_celsius

C26_Returned == call.fn = "flag_sensor_maintenance_periods" /\ call.pc = "returned"

\* The frame has the columns the call names.
C26_Applicable == C26_Returned /\ call.has_columns

\* C26 as stated: a returned row is flagged exactly when it lies in a run,
\* per sensor and in timestamp order, of at least threshold_hours
\* consecutive readings with the same temperature.
C26_RunsFlagged ==
    C26_Applicable =>
        \A i \in DOMAIN call.result :
            call.result[i].maintenance_flag <=>
                \E R \in C26_Consecutive(call.df) :
                    /\ i \in R
                    /\ Cardinality(R) >= call.threshold_hours
                    /\ C26_SameTemperature(call.df, R)

\* C26: a returned row is flagged exactly when it lies in a run, per sensor
\* and in timestamp order, of at least threshold_hours consecutive readings
\* each of which repeats the temperature of the reading before it; the
\* reading that starts the repetition is not flagged, so threshold_hours + 1
\* identical readings are needed.  No row is flagged when a named column is
\* missing.  The returned frame has the rows of the input in the input's
\* order, and the input frame is as it was.
C26_RepeatsFlagged ==
    C26_Returned =>
        /\ Len(call.result) = Len(call.df)
        /\ \A i \in DOMAIN call.result :
              /\ [sensor_id |-> call.result[i].sensor_id,
                  timestamp |-> call.result[i].timestamp,
                  temperature_celsius |-> call.result[i].temperature_celsius] = call.df[i]
              /\ call.result[i].maintenance_flag <=>
                    \E R \in C26_Consecutive(call.df) :
                        /\ call.has_columns
                        /\ i \in R
                        /\ Cardinality(R) >= call.threshold_hours
                        /\ \A k \in R :
                              \E j \in SensorData(call.df, call.df[k].sensor_id) :
                                  /\ call.df[j].timestamp < call.df[k].timestamp
                                  /\ \A m \in SensorData(call.df, call.df[k].sensor_id) :
                                        ~(call.df[j].timestamp < call.df[m].timestamp
                                          /\ call.df[m].timestamp < call.df[k].timestamp)
                                  /\ call.df[j].temperature_celsius
                                        = call.df[k].temperature_celsius

\* Three identical readings of a sensor, given out of timestamp order and
\* with threshold_hours 2: the later two are flagged, the earliest is not.
C26_Witness ==
    /\ C26_Applicable
    /\ call.threshold_hours = 2
    /\ Len(call.df) = 3
    /\ \A i \in 1 .. 3 : call.df[i].sensor_id = 1 /\ call.df[i].temperature_celsius = 20
    /\ call.df[1].timestamp = 2
    /\ call.df[2].timestamp = 0
    /\ call.df[3].timestamp = 1
    /\ call.result[1].maintenance_flag
    /\ ~call.result[2].maintenance_flag
    /\ call.result[3].maintenance_flag

----------------------------------------------------------------------------
(* Validation over the accumulated summary table.                          *)

C27_NullWeather(table) == \E row \in BagToSet(table) : row.weather_condition = Null

\* C27: no step removes a summary row, and while the summary table holds a
\* row without weather_condition no attempt of validate_data succeeds, in
\* the run that inserted the row or in a later one, and log_metrics_task,
\* branching_task and the alert tasks are never attempted.
C27_ValidationBlocked ==
    /\ [](C27_NullWeather(summary) =>
            /\ state["validate_data"] # "success"
            /\ result["validate_data"] \in {"none", "raised", "env_error"}
            /\ \A t \in {"log_metrics_task", "branching_task", "send_alert_task",
                         "no_alert_task"} :
                  tries[t] = 0 /\ state[t] \in {"none", "upstream_failed"})
    /\ [][summary \sqsubseteq summary']_vars

\* A later run inserted only rows with weather, and its validate_data
\* raised on the row an earlier run had left.
C27_Witness ==
    /\ run.no > 1
    /\ emitted # EmptyBag
    /\ ~C27_NullWeather(emitted)
    /\ C27_NullWeather(summary)
    /\ state["validate_data"] = "failed"
    /\ result["validate_data"] = "raised"
    /\ state["branching_task"] = "upstream_failed"

----------------------------------------------------------------------------
(* The index on the summary table.                                         *)

\* C28: an attempt of optimize_queries that reaches the database finds the
\* summary table there, created by transform_in_sql in this run or an
\* earlier one.
C28_IndexAfterTable ==
    [][(tries'["optimize_queries"] > tries["optimize_queries"]
            /\ result'["optimize_queries"] # "env_error")
         => catalog.table]_vars

----------------------------------------------------------------------------
(* Conservation of readings in one aggregation.                            *)

\* sensor_id is unique in the directory.
C29_DirectoryKeyed ==
    \A s \in BagToSet(raw_sensors) :
        /\ raw_sensors[s] = 1
        /\ \A t \in BagToSet(raw_sensors) : t.sensor_id = s.sensor_id => t = s

\* raw_weather holds at most one observation per (location, date), as the
\* data model has it.
C29_WeatherKeyed ==
    \A x \in BagToSet(raw_weather) :
        /\ raw_weather[x] = 1
        /\ \A y \in BagToSet(raw_weather) :
              (y.location = x.location /\ y.date = x.date) => y = x

\* The readings an aggregation has to count: in scope (inside the window for
\* the incremental transform, all of them otherwise), of a sensor of the
\* directory, with a temperature.
C29_Countable ==
    {r \in BagToSet(raw_readings) :
        /\ out.by = "incremental" => (win.start <= r.timestamp /\ r.timestamp < win.end)
        /\ r.temperature # Null
        /\ \E s \in BagToSet(raw_sensors) : s.sensor_id = r.sensor_id}

C29_LocationOf(r) ==
    (CHOOSE s \in BagToSet(raw_sensors) : s.sensor_id = r.sensor_id).location

\* The readings counted, copies included.
C29_Number(R) == SumF([r \in R |-> raw_readings[r]], R)

\* The sum of reading_count over the emitted rows R, copies included.
C29_Counted(R) == SumF([row \in R |-> out.rows[row] * row.reading_count], R)

----------------------------------------------------------------------------
(* The moving average of an incremental run and the stored rows.           *)

\* C30: in a run of the incremental DAG, whose window is the one calendar
\* day ds, every row the run inserted has moving_avg_3day equal to its own
\* avg_temp, whatever rows of earlier dates earlier runs have stored.
C30_MovingAvgOwnDay ==
    (run.state # "none" /\ win = DayWindow(run.ds)) =>
        \A row \in BagToSet(emitted) :
            /\ row.date = run.ds
            /\ row.moving_avg_3day = row.avg_temp

\* A second run inserted a row for Loc1 while the table holds the row of
\* the day before, of the same location and with another average.
C30_Witness ==
    /\ run.no > 1
    /\ win = DayWindow(run.ds)
    /\ \E row \in BagToSet(emitted) :
          /\ row.avg_temp # Null
          /\ row.moving_avg_3day = row.avg_temp
          /\ \E x \in BagToSet(summary) :
                /\ x.location = row.location
                /\ x.date = row.date - 1
                /\ x.avg_temp # Null
                /\ x.avg_temp # row.avg_temp

====
